---- MODULE Spec2Model ----
(***************************************************************************)
(* Verification model of the CSMS backend's Google Drive layer:            *)
(*   services/google_drive.py         GoogleDriveService                   *)
(*   services/drive_template_service.py  DriveTemplateService              *)
(*   main.py                          project_setup_task                   *)
(*                                                                         *)
(* The remote Drive is the set `files`; every remote call is either        *)
(* answered from `files` or raises (the n-th remote call of an operation   *)
(* raises iff n is in the operation's set `fails`).  Names are sequences   *)
(* of one-character strings so that the string operations of the code      *)
(* (split, join, contains, comparison, sanitising) are computed.           *)
(***************************************************************************)
EXTENDS Integers, Sequences, FiniteSets, TLC

VARIABLES files, folders_cache, nextId, enabled, hist, nested, procs, clone,
          toc, scan, req, db, rate

driveVars == <<files, folders_cache, nextId, enabled>>

vars == <<files, folders_cache, nextId, enabled, hist, nested, procs, clone,
          toc, scan, req, db, rate>>

-----------------------------------------------------------------------------
(* Bounds *)

\* number of folders/files the operations of one behaviour may create
MaxNew == 2

-----------------------------------------------------------------------------
(* Identifiers *)

\* Python None / a falsy id
None == 0

\* GoogleDriveService.folder_id (GOOGLE_DRIVE_FOLDER_ID), the root folder
folder_id == 1

\* DriveTemplateService.master_template_id
master_template_id == 2

FOLDER == "application/vnd.google-apps.folder"

PLAIN == "application/octet-stream"

-----------------------------------------------------------------------------
(* Strings: a str is a sequence of characters *)

\* code points of the characters used
Ord ==
  [c \in {" ", "-", ".", "/", "0", "1", "2", "3", "4", "A", "B", "C",
          "D", "E", "F", "H", "I", "L", "M", "N", "O", "P", "Q", "R",
          "S", "T", "U", "_", "d", "e", "f", "l", "m", "n", "p", "t"} |->
     CASE c = " " -> 32 [] c = "-" -> 45 [] c = "." -> 46 [] c = "/" -> 47
       [] c = "0" -> 48 [] c = "1" -> 49 [] c = "2" -> 50 [] c = "3" -> 51
       [] c = "4" -> 52 [] c = "A" -> 65 [] c = "B" -> 66 [] c = "C" -> 67
       [] c = "D" -> 68 [] c = "E" -> 69 [] c = "F" -> 70 [] c = "H" -> 72
       [] c = "I" -> 73 [] c = "L" -> 76 [] c = "M" -> 77 [] c = "N" -> 78
       [] c = "O" -> 79 [] c = "P" -> 80 [] c = "Q" -> 81 [] c = "R" -> 82
       [] c = "S" -> 83 [] c = "T" -> 84 [] c = "U" -> 85 [] c = "_" -> 95
       [] c = "d" -> 100 [] c = "e" -> 101 [] c = "f" -> 102 [] c = "l" -> 108
       [] c = "m" -> 109 [] c = "n" -> 110 [] c = "p" -> 112 [] c = "t" -> 116]

\* str.isalnum() of one character
isalnum(c) ==
  \/ (Ord[c] >= 48 /\ Ord[c] <= 57)
  \/ (Ord[c] >= 65 /\ Ord[c] <= 90)
  \/ (Ord[c] >= 97 /\ Ord[c] <= 122)

\* Python's a < b on str: lexicographic by code point, a proper prefix is less
StrLess(a, b) ==
  \E i \in 1..(Len(a) + 1) :
     /\ \A j \in 1..(i - 1) : j <= Len(b) /\ a[j] = b[j]
     /\ \/ (i = Len(a) + 1 /\ Len(b) >= i)
        \/ (i <= Len(a) /\ i <= Len(b) /\ Ord[a[i]] < Ord[b[i]])

\* s.startswith(t)
StartsWith(s, t) ==
  /\ Len(t) <= Len(s)
  /\ SubSeq(s, 1, Len(t)) = t

\* t occurs in s as a contiguous substring
Contains(s, t) ==
  \E i \in 1..(Len(s) - Len(t) + 1) : SubSeq(s, i, i + Len(t) - 1) = t

\* position of the first occurrence of character c in s, 0 if none
IndexOf(s, c) ==
  IF \E i \in 1..Len(s) : s[i] = c
    THEN CHOOSE i \in 1..Len(s) : s[i] = c /\ \A j \in 1..(i - 1) : s[j] # c
    ELSE 0

RECURSIVE split(_, _)
\* s.split(c): the list of pieces of s between occurrences of c
split(s, c) ==
  LET i == IndexOf(s, c)
  IN  IF i = 0 THEN <<s>>
      ELSE <<SubSeq(s, 1, i - 1)>> \o split(SubSeq(s, i + 1, Len(s)), c)

RECURSIVE join(_, _)
\* c.join(parts)
join(parts, c) ==
  IF Len(parts) = 0 THEN <<>>
  ELSE IF Len(parts) = 1 THEN parts[1]
  ELSE parts[1] \o <<c>> \o join(Tail(parts), c)

\* "".join(x for x in task_title if (x.isalnum() or x in "._- "))
safe_title(task_title) ==
  SelectSeq(task_title, LAMBDA x : isalnum(x) \/ x \in {".", "_", "-", " "})

-----------------------------------------------------------------------------
(* The remote store *)

\* a Drive file resource
File(id, name, parent, mimeType) ==
  [id |-> id, name |-> name, parent |-> parent, mimeType |-> mimeType]

\* ids of the children of `parent` named exactly `name` that are folders
FoldersNamed(F, parent, name) ==
  {f \in F : f.parent = parent /\ f.name = name /\ f.mimeType = FOLDER}

\* Query without the "'<parent>' in parents" term
QueryAnyParent(f, folder_name, parent_id, prefix_search) ==
  /\ IF prefix_search
       THEN f.name = folder_name \/ Contains(f.name, folder_name \o <<" ">>)
       ELSE f.name = folder_name
  /\ f.mimeType = FOLDER

\* an exact-name query written with the prefix operator only
QueryContainsOnly(f, folder_name, parent_id, prefix_search) ==
  /\ Contains(f.name, folder_name \o <<" ">>)
  /\ f.parent = parent_id
  /\ f.mimeType = FOLDER

\* the q= expression of find_or_create_folder, evaluated on one file.
\* Drive's `name contains t` is taken by the meaning of the operator: the
\* text t occurs in the name (Drive matches it at the start of any word of
\* the name, not only at the start of the name).
Query(f, folder_name, parent_id, prefix_search) ==
  /\ IF prefix_search
       THEN f.name = folder_name \/ Contains(f.name, folder_name \o <<" ">>)
       ELSE f.name = folder_name
  /\ f.parent = parent_id
  /\ f.mimeType = FOLDER

\* the listing comes back in an order the program does not control: by
\* ascending or by descending id
ListedBefore(a, b, desc) == IF desc THEN a.id > b.id ELSE a.id < b.id

\* the orders that can be told apart: the order of a listing matters to the
\* program only between folders of the same name under the same parent
ListOrders(F) ==
  IF \E a \in F, b \in F :
       a.id # b.id /\ a.name = b.name /\ a.parent = b.parent
    THEN BOOLEAN
    ELSE {FALSE}

\* files.sort(key=lambda x: (x['name'] != folder_name, x['name'])): a < b
KeyLess(a, b, folder_name) ==
  \/ (a.name = folder_name /\ b.name # folder_name)
  \/ /\ (a.name = folder_name) = (b.name = folder_name)
     /\ StrLess(a.name, b.name)

\* files[0] after the stable sort of the listing
SortedFirst(found, folder_name, desc) ==
  CHOOSE a \in found :
    \A b \in found \ {a} :
      \/ KeyLess(a, b, folder_name)
      \/ (~KeyLess(b, a, folder_name) /\ ListedBefore(a, b, desc))

\* a cache key that leaves out the parent
CacheKeyNameOnly(parent_id, folder_name) == <<folder_id, folder_name>>

\* cache_key = f"{parent_id}:{folder_name}"; Drive ids contain no ':', so
\* the key determines the pair
CacheKey(parent_id, folder_name) == <<parent_id, folder_name>>

\* body applied to the value of e: a local name for a result that is
\* computed once, as a Python assignment computes it
Bind(e, body(_)) == CHOOSE r \in {body(v) : v \in {e}} : TRUE

-----------------------------------------------------------------------------
(* GoogleDriveService.find_or_create_folder                                *)
(* A service state s is [files, cache, nextId, enabled, calls, ret]:       *)
(* calls counts the remote calls issued so far by the running operation,   *)
(* ret is the value returned by the last call.                             *)

State(F, cache, nid, en) ==
  [files |-> F, cache |-> cache, nextId |-> nid, enabled |-> en,
   calls |-> 0, ret |-> None]

find_or_create_folder(s, folder_name, parent_arg, prefix_search, fails, desc) ==
  LET parent_id == IF parent_arg = None THEN folder_id ELSE parent_arg
      cache_key == CacheKey(parent_id, folder_name)
      nList     == s.calls + 1
      found     == {f \in s.files : Query(f, folder_name, parent_id, prefix_search)}
      first     == SortedFirst(found, folder_name, desc)
      nCreate   == s.calls + 2
      new       == File(s.nextId, folder_name, parent_id, FOLDER)
  IN  IF ~s.enabled
        THEN [s EXCEPT !.ret = None]
      ELSE IF ~prefix_search /\ cache_key \in DOMAIN s.cache
        THEN [s EXCEPT !.ret = s.cache[cache_key]]
      ELSE IF nList \in fails
        THEN [s EXCEPT !.calls = nList, !.ret = None]
      ELSE IF found # {}
        THEN [s EXCEPT !.calls = nList,
                       !.cache = IF first.name = folder_name
                                   THEN (cache_key :> first.id) @@ s.cache
                                   ELSE s.cache,
                       !.ret = first.id]
      ELSE IF nCreate \in fails
        THEN [s EXCEPT !.calls = nCreate, !.ret = None]
      ELSE [s EXCEPT !.calls = nCreate,
                     !.files = s.files \cup {new},
                     !.nextId = s.nextId + 1,
                     !.cache = (cache_key :> new.id) @@ s.cache,
                     !.ret = new.id]

-----------------------------------------------------------------------------
(* Resolver calls made one after the other (SpecResolve)                   *)

\* names the callers resolve: "2.1", "2.1 H", "2.10 O", "A 2.1 B"
ResolveNames ==
  { <<"2", ".", "1">>,
    <<"2", ".", "1", " ", "H">>,
    <<"2", ".", "1", "0", " ", "O">>,
    <<"A", " ", "2", ".", "1", " ", "B">> }

\* folders that may exist under the root before the process starts, with
\* the ids the store gave them
PreExisting ==
  { File(4, <<"2", ".", "1", " ", "H">>, folder_id, FOLDER),
    File(5, <<"A", " ", "2", ".", "1", " ", "B">>, folder_id, FOLDER) }

\* a project folder "P" under the root, used as the second parent
ProjectP == File(3, <<"P">>, folder_id, FOLDER)

\* the first id the store hands out to the process
FirstNewId == ProjectP.id + Cardinality(PreExisting) + 1

\* the outcomes of the remote calls of one operation: none raises, or the
\* n-th one does (an exception ends the operation's current resolver call)
FailSets(n) == {{}} \cup {{i} : i \in 1..n}

\* the previous call, remembered when it had the same arguments
NoPrev == [same |-> FALSE, ret |-> None, raised |-> FALSE, count |-> 0]

\* what one finished resolver call looked like
CallRecord(s, r, folder_name, parent_arg, prefix_search, fails) ==
  LET parent_id == IF parent_arg = None THEN folder_id ELSE parent_arg
  IN  [name |-> folder_name,
       parent |-> parent_id,
       prefix |-> prefix_search,
       ret |-> r.ret,
       raised |-> r.calls \in fails,
       before |-> s.files,
       cacheBefore |-> s.cache,
       prev |-> IF /\ hist # <<>>
                   /\ hist.name = folder_name
                   /\ hist.parent = parent_id
                   /\ hist.prefix = prefix_search
                  THEN [same |-> TRUE, ret |-> hist.ret, raised |-> hist.raised,
                        count |-> Cardinality(FoldersNamed(hist.before, parent_id, folder_name))]
                  ELSE NoPrev]

InitResolve ==
  /\ \E pre \in SUBSET PreExisting : files = {ProjectP} \cup pre
  /\ folders_cache = <<>>
  /\ nextId = FirstNewId
  /\ enabled = TRUE
  /\ hist = <<>>
  /\ nested = <<>>
  /\ procs = <<>>
  /\ clone = <<>>
  /\ toc = <<>>
  /\ scan = <<>>
  /\ req = <<>>
  /\ db = <<>>
  /\ rate = <<>>

\* one call drive_service.find_or_create_folder(folder_name, parent, prefix_search)
FindOrCreateFolder(folder_name, parent_arg, prefix_search, fails, desc) ==
  \E s \in {State(files, folders_cache, nextId, enabled)} :
  \E r \in {find_or_create_folder(s, folder_name, parent_arg, prefix_search, fails, desc)} :
      /\ r.nextId <= FirstNewId + MaxNew
      /\ files' = r.files
      /\ folders_cache' = r.cache
      /\ nextId' = r.nextId
      /\ hist' = CallRecord(s, r, folder_name, parent_arg, prefix_search, fails)
      /\ UNCHANGED <<enabled, nested, procs, clone, toc, scan, req, db, rate>>

NextResolve ==
  \E folder_name \in ResolveNames, parent_arg \in {None, ProjectP.id},
     prefix_search \in BOOLEAN, fails \in FailSets(2), desc \in ListOrders(files) :
    FindOrCreateFolder(folder_name, parent_arg, prefix_search, fails, desc)

SpecResolve == InitResolve /\ [][NextResolve]_vars

-----------------------------------------------------------------------------
(* Properties of SpecResolve *)

FileById(F, id) == CHOOSE f \in F : f.id = id

\* the last call and the one before it were the same exact-name resolution,
\* neither hit a remote error, and at most one such folder existed before
TwoExactCalls ==
  /\ hist # <<>>
  /\ ~hist.prefix
  /\ hist.prev.same
  /\ ~hist.raised
  /\ ~hist.prev.raised
  /\ hist.prev.count <= 1

\* C1: two exact-name resolutions of the same (parent, name) made one after
\* the other, starting with at most one such folder and with no remote error,
\* return the same non-null id, and exactly one folder of that name is then
\* a child of parent.
C1_IdempotentResolution ==
  TwoExactCalls =>
    /\ hist.ret # None
    /\ hist.ret = hist.prev.ret
    /\ Cardinality(FoldersNamed(files, hist.parent, hist.name)) = 1

C1_Witness ==
  /\ TwoExactCalls
  /\ hist.prev.count = 0
  /\ hist.parent = ProjectP.id
  /\ hist.ret # None

\* C2: a prefix resolution that returns an id returns a child of parent
\* whose name is the requested name or starts with the name and a space.
C2_PrefixOnlyNameOrNameSpace ==
  (hist # <<>> /\ hist.prefix /\ ~hist.raised) =>
    LET f == FileById(files, hist.ret)
    IN  /\ f.parent = hist.parent
        /\ \/ f.name = hist.name
           \/ StartsWith(f.name, hist.name \o <<" ">>)

\* C3 as stated: a prefix resolution leaves folders_cache as it was.
C3_PrefixLeavesCache ==
  (hist # <<>> /\ hist.prefix) => folders_cache = hist.cacheBefore

\* C3 amended: a prefix resolution never reads folders_cache (it returns
\* what it returns from an empty cache) and writes it only when the folder
\* it returns is named exactly as requested: then the entry (parent, name)
\* is set to the returned id; when a suffixed child is found or the call
\* fails, folders_cache stays as it was.
C3_PrefixCacheEffect ==
  (hist # <<>> /\ hist.prefix) =>
    LET created == files # hist.before
        s0 == State(hist.before, <<>>, IF created THEN nextId - 1 ELSE nextId, TRUE)
        r0 == find_or_create_folder(s0, hist.name, hist.parent, TRUE, {}, FALSE)
    IN  /\ ~hist.raised => (r0.ret = hist.ret /\ r0.files = files)
        /\ IF ~hist.raised /\ FileById(files, hist.ret).name = hist.name
             THEN folders_cache = (<<hist.parent, hist.name>> :> hist.ret) @@ hist.cacheBefore
             ELSE folders_cache = hist.cacheBefore

C3_Witness ==
  /\ hist # <<>>
  /\ hist.prefix
  /\ ~hist.raised
  /\ hist.parent = ProjectP.id
  /\ files # hist.before
  /\ folders_cache # hist.cacheBefore

-----------------------------------------------------------------------------
(* GoogleDriveService.create_nested_task_folder, upload_file_to_drive      *)

\* '.'.join(parts[:i]), one level short
folder_code_short(parts, i) == join(SubSeq(parts, 1, i), ".")

\* folder_code = '.'.join(parts[:i+1]) for the loop index i of range(1, len(parts))
folder_code(parts, i) == join(SubSeq(parts, 1, i + 1), ".")

\* element_folder_name = f"Element {parts[0]}"
element_folder_name(parts) == <<"E", "l", "e", "m", "e", "n", "t", " ">> \o parts[1]

\* the name the loop gives the folder of the full code
final_folder_name(task_code, task_title) ==
  IF task_title # <<>>
    THEN task_code \o <<" ">> \o safe_title(task_title)
    ELSE task_code

RECURSIVE nested_loop(_, _, _, _, _, _, _)
\* for i in range(1, len(parts)); s.ret is current_parent_id
nested_loop(s, parts, i, task_code, task_title, fails, desc) ==
  IF i > Len(parts) - 1
    THEN s
    ELSE LET code_i   == folder_code(parts, i)
             is_final == (code_i = task_code)
             r == IF is_final
                    THEN find_or_create_folder(s, final_folder_name(code_i, task_title),
                                               s.ret, FALSE, fails, desc)
                    ELSE find_or_create_folder(s, code_i, s.ret, TRUE, fails, desc)
         IN  IF r.ret = None
               THEN r
               ELSE nested_loop(r, parts, i + 1, task_code, task_title, fails, desc)

create_nested_task_folder(s, project_name, task_code, task_title, fails, desc) ==
  IF ~s.enabled
    THEN [s EXCEPT !.ret = None]
  ELSE IF task_code = <<>>
    THEN find_or_create_folder(s, project_name, None, FALSE, fails, desc)
  ELSE
    LET p     == find_or_create_folder(s, project_name, None, FALSE, fails, desc)
        parts == split(task_code, ".")
        e     == find_or_create_folder(p, element_folder_name(parts), p.ret, FALSE, fails, desc)
    IN  IF p.ret = None
          THEN p
        ELSE IF e.ret = None
          THEN [e EXCEPT !.ret = p.ret]
        ELSE nested_loop(e, parts, 1, task_code, task_title, fails, desc)

\* the dict upload_file_to_drive returns, and the folder the file went to
UploadResult(success, file_id, project_folder_id, target) ==
  [success |-> success, file_id |-> file_id,
   project_folder_id |-> project_folder_id, target |-> target]

\* returns [s |-> service state, result |-> the returned dict]
upload_file_to_drive(s, filename, project_name, task_code, task_title, fails, desc) ==
  IF ~s.enabled
    THEN [s |-> s, result |-> UploadResult(FALSE, None, None, None)]
  ELSE
    LET p == find_or_create_folder(s, project_name, None, FALSE, fails, desc)
        t == IF task_code # <<>>
               THEN create_nested_task_folder(p, project_name, task_code, task_title, fails, desc)
               ELSE p
        nCreate == t.calls + 1
        new == File(t.nextId, filename, t.ret, PLAIN)
    IN  IF t.ret = None
          THEN [s |-> t, result |-> UploadResult(FALSE, None, None, None)]
        ELSE IF nCreate \in fails
          THEN [s |-> [t EXCEPT !.calls = nCreate],
                result |-> UploadResult(FALSE, None, None, None)]
        ELSE [s |-> [t EXCEPT !.calls = nCreate,
                              !.files = t.files \cup {new},
                              !.nextId = t.nextId + 1],
              result |-> UploadResult(TRUE, new.id, p.ret, t.ret)]

-----------------------------------------------------------------------------
(* Uploads and folder materialisation for one project (SpecNested)         *)

\* folders and files one behaviour of SpecNested may create
MaxNested == 4

\* files one behaviour of SpecNested may upload
MaxUploads == 1

ProjectName == <<"P">>

\* task codes "", "4", "4.3", "4.3.2"
TaskCodes ==
  { <<>>, <<"4">>, <<"4", ".", "3">>, <<"4", ".", "3", ".", "2">> }

\* task titles "" and "/T" (sanitised to "T")
TaskTitles == { <<>>, <<"/", "T">> }

FileName == <<"A">>

InitNested ==
  /\ files = {}
  /\ folders_cache = <<>>
  /\ nextId = master_template_id + 1
  /\ enabled = TRUE
  /\ hist = <<>>
  /\ nested = <<>>
  /\ procs = <<>>
  /\ clone = <<>>
  /\ toc = <<>>
  /\ scan = <<>>
  /\ req = <<>>
  /\ db = <<>>
  /\ rate = <<>>

\* what one finished operation looked like
NestedRecord(op, s, r, task_code, task_title, fails, ret, success, target) ==
  [op |-> op, code |-> task_code, title |-> task_title,
   ret |-> ret, success |-> success, target |-> target,
   raised |-> (fails \cap (1..r.calls)) # {},
   before |-> s.files, firstNew |-> s.nextId]

\* one call drive_service.create_nested_task_folder(project, code, title)
CreateNestedTaskFolder(task_code, task_title, fails, desc) ==
  \E s \in {State(files, folders_cache, nextId, enabled)} :
  \E r \in {create_nested_task_folder(s, ProjectName, task_code, task_title, fails, desc)} :
      /\ r.nextId <= master_template_id + 1 + MaxNested
      /\ files' = r.files
      /\ folders_cache' = r.cache
      /\ nextId' = r.nextId
      /\ nested' = NestedRecord("nested", s, r, task_code, task_title, fails,
                                r.ret, r.ret # None, r.ret)
      /\ UNCHANGED <<enabled, hist, procs, clone, toc, scan, req, db, rate>>

\* one call drive_service.upload_file_to_drive(data, filename, project, code, title)
UploadFileToDrive(task_code, task_title, fails, desc) ==
  \E s \in {State(files, folders_cache, nextId, enabled)} :
  \E u \in {upload_file_to_drive(s, FileName, ProjectName, task_code, task_title, fails, desc)} :
      /\ u.s.nextId <= master_template_id + 1 + MaxNested
      /\ Cardinality({f \in u.s.files : f.mimeType = PLAIN}) <= MaxUploads
      /\ files' = u.s.files
      /\ folders_cache' = u.s.cache
      /\ nextId' = u.s.nextId
      /\ nested' = NestedRecord("upload", s, u.s, task_code, task_title, fails,
                                u.result.file_id, u.result.success, u.result.target)
      /\ UNCHANGED <<enabled, hist, procs, clone, toc, scan, req, db, rate>>

\* a new process: GoogleDriveService() starts with an empty folders_cache
Restart ==
  /\ folders_cache # <<>>
  /\ folders_cache' = <<>>
  /\ UNCHANGED <<files, nextId, enabled, hist, nested, procs, clone, toc, scan, req, db, rate>>

\* the number of remote calls the operation issues when none of them raises;
\* a call that raises is one of these
NestedCalls(task_code, task_title, desc) ==
  create_nested_task_folder(State(files, folders_cache, nextId, enabled),
                            ProjectName, task_code, task_title, {}, desc).calls

UploadCalls(task_code, task_title, desc) ==
  upload_file_to_drive(State(files, folders_cache, nextId, enabled), FileName,
                       ProjectName, task_code, task_title, {}, desc).s.calls

NextNested ==
  \/ \E task_code \in TaskCodes, task_title \in TaskTitles, desc \in ListOrders(files) :
       \E fails \in FailSets(NestedCalls(task_code, task_title, desc)) :
         CreateNestedTaskFolder(task_code, task_title, fails, desc)
  \/ \E task_code \in TaskCodes, task_title \in TaskTitles, desc \in ListOrders(files) :
       \E fails \in FailSets(UploadCalls(task_code, task_title, desc)) :
         UploadFileToDrive(task_code, task_title, fails, desc)
  \/ Restart

SpecNested == InitNested /\ [][NextNested]_vars

-----------------------------------------------------------------------------
(* Properties of SpecNested *)

RECURSIVE PathOf(_, _)
\* the folders from the child of the root down to the file with this id
PathOf(F, id) ==
  IF id = folder_id
    THEN <<>>
    ELSE Append(PathOf(F, FileById(F, id).parent), FileById(F, id))

\* the last operation was create_nested_task_folder for a code of n elements
\* and no remote call raised
NestedDone(n) ==
  /\ nested # <<>>
  /\ nested.op = "nested"
  /\ nested.code # <<>>
  /\ ~nested.raised
  /\ Len(split(nested.code, ".")) = n

\* name is the folder of the dotted code c: "c" or "c <suffix>"
NamesCode(name, c) == name = c \/ StartsWith(name, c \o <<" ">>)

\* C4: for a code of n >= 2 elements and no remote error, the returned id
\* is the end of the chain root / project / "Element c1" / c1.c2 / ... /
\* "<code> <sanitised title>", each a child of the one before; the folders
\* created by the call are exactly the absent members of the chain, created
\* from the top down, and a member is created only when its parent had no
\* folder for that segment.
C4_CodeExpansion ==
  \A n \in 2..3 : NestedDone(n) =>
    LET parts == split(nested.code, ".")
        path  == PathOf(files, nested.ret)
        isNew(f) == f \notin nested.before
        want(i) == IF i = 1 THEN ProjectName
                   ELSE IF i = 2 THEN <<"E", "l", "e", "m", "e", "n", "t", " ">> \o parts[1]
                   ELSE IF i = n + 1
                     THEN IF nested.title = <<>>
                            THEN nested.code
                            ELSE nested.code \o <<" ">> \o
                                 SelectSeq(nested.title, LAMBDA x : x # "/")
                   ELSE join(SubSeq(parts, 1, i - 1), ".")
        exact(i) == i <= 2 \/ i = n + 1
    IN  /\ nested.ret # None
        /\ Len(path) = n + 1
        /\ \A i \in 1..(n + 1) :
             /\ path[i].mimeType = FOLDER
             /\ IF exact(i) \/ isNew(path[i])
                  THEN path[i].name = want(i)
                  ELSE \/ path[i].name = want(i)
                       \/ Contains(path[i].name, want(i) \o <<" ">>)
             /\ isNew(path[i]) =>
                  \A g \in nested.before :
                    (g.parent = path[i].parent /\ g.mimeType = FOLDER) =>
                      IF exact(i) THEN g.name # want(i) ELSE ~NamesCode(g.name, want(i))
        /\ \A i \in 1..n : path[i].id < path[i + 1].id \/ ~isNew(path[i + 1])
        /\ files \ nested.before = {path[i] : i \in {j \in 1..(n + 1) : isNew(path[j])}}

C4_Witness ==
  /\ NestedDone(3)
  /\ nested.title # <<>>
  /\ nested.ret # None
  /\ Cardinality(files \ nested.before) = 1
  /\ \E f \in nested.before : f.name = <<"4", ".", "3", " ", "T">>

\* C5: when a folder for the full code (bare or with a title suffix) already
\* exists under the last intermediate folder, the call returns one of those
\* folders and creates nothing.
C5_FinalReusesSuffixed ==
  \A n \in 2..3 : (NestedDone(n) /\ nested.ret # None) =>
    LET fin == FileById(files, nested.ret)
        earlier == {f \in nested.before :
                      /\ f.parent = fin.parent
                      /\ f.mimeType = FOLDER
                      /\ NamesCode(f.name, nested.code)}
    IN  earlier # {} => (fin \in earlier /\ files = nested.before)

\* C6: for a code of one element the returned id is the folder of the code
\* (with the sanitised title when given), a child of "Element <code>".
C6_SingleElementFinal ==
  NestedDone(1) =>
    /\ nested.ret # None
    /\ LET f == FileById(files, nested.ret)
       IN  /\ NamesCode(f.name, nested.code)
           /\ FileById(files, f.parent).name =
                <<"E", "l", "e", "m", "e", "n", "t", " ">> \o nested.code

\* C7: create_nested_task_folder returns None when a segment failed to
\* resolve, and a success of create_nested_task_folder or of
\* upload_file_to_drive for a code of two or more elements names or uses the
\* folder of the full code.
C7_FinalOrFailure ==
  nested # <<>> =>
    /\ (nested.op = "nested" /\ nested.code # <<>> /\ nested.raised) => nested.ret = None
    /\ (nested.success /\ Len(split(nested.code, ".")) >= 2) =>
         NamesCode(FileById(files, nested.target).name, nested.code)

-----------------------------------------------------------------------------
(* Two workers inside find_or_create_folder at once (SpecRace).  A worker  *)
(* is a request-handler thread or an executor thread of the same process;  *)
(* it can be suspended at each remote call.                                *)

Workers == {1, 2}

RaceNames == { <<"2", ".", "1">>, <<"2", ".", "1", " ", "H">> }

Idle == [pc |-> "idle", name |-> <<>>, parent |-> None, ret |-> None, raised |-> FALSE]

InitRace ==
  /\ \E pre \in SUBSET {File(4, <<"2", ".", "1", " ", "H">>, folder_id, FOLDER)} :
       files = {ProjectP} \cup pre
  /\ folders_cache = <<>>
  /\ nextId = ProjectP.id + 2
  /\ enabled = TRUE
  /\ hist = <<>>
  /\ nested = <<>>
  /\ procs = [w \in Workers |-> Idle]
  /\ clone = <<>>
  /\ toc = <<>>
  /\ scan = <<>>
  /\ req = <<>>
  /\ db = <<>>
  /\ rate = <<>>

\* lines 122-133: entry and cache check of an exact-name call
RaceBegin(w, folder_name, parent_arg) ==
  LET parent_id == IF parent_arg = None THEN folder_id ELSE parent_arg
      cache_key == CacheKey(parent_id, folder_name)
  IN  /\ procs[w].pc = "idle"
      /\ enabled
      /\ procs' = [procs EXCEPT ![w] =
           IF cache_key \in DOMAIN folders_cache
             THEN [pc |-> "done", name |-> folder_name, parent |-> parent_id,
                   ret |-> folders_cache[cache_key], raised |-> FALSE]
             ELSE [pc |-> "list", name |-> folder_name, parent |-> parent_id,
                   ret |-> None, raised |-> FALSE]]
      /\ UNCHANGED <<files, folders_cache, nextId, enabled, hist, nested, clone, toc, scan, req, db, rate>>

\* lines 140-156: the files().list call and what follows a non-empty answer
RaceList(w, raises, desc) ==
  LET me        == procs[w]
      cache_key == CacheKey(me.parent, me.name)
      found     == {f \in files : Query(f, me.name, me.parent, FALSE)}
      first     == SortedFirst(found, me.name, desc)
  IN  /\ me.pc = "list"
      /\ IF raises
           THEN /\ procs' = [procs EXCEPT ![w].pc = "done", ![w].raised = TRUE]
                /\ UNCHANGED folders_cache
         ELSE IF found # {}
           THEN /\ procs' = [procs EXCEPT ![w].pc = "done", ![w].ret = first.id]
                /\ folders_cache' = IF first.name = me.name
                                      THEN (cache_key :> first.id) @@ folders_cache
                                      ELSE folders_cache
         ELSE /\ procs' = [procs EXCEPT ![w].pc = "create"]
              /\ UNCHANGED folders_cache
      /\ UNCHANGED <<files, nextId, enabled, hist, nested, clone, toc, scan, req, db, rate>>

\* lines 162-171: the files().create call, the cache write and the return
RaceCreate(w, raises) ==
  LET me        == procs[w]
      cache_key == CacheKey(me.parent, me.name)
      new       == File(nextId, me.name, me.parent, FOLDER)
  IN  /\ me.pc = "create"
      /\ IF raises
           THEN /\ procs' = [procs EXCEPT ![w].pc = "done", ![w].raised = TRUE]
                /\ UNCHANGED <<files, folders_cache, nextId>>
           ELSE /\ procs' = [procs EXCEPT ![w].pc = "done", ![w].ret = new.id]
                /\ files' = files \cup {new}
                /\ nextId' = nextId + 1
                /\ folders_cache' = (cache_key :> new.id) @@ folders_cache
      /\ UNCHANGED <<enabled, hist, nested, clone, toc, scan, req, db, rate>>

NextRace ==
  \/ \E w \in Workers, folder_name \in RaceNames, parent_arg \in {None, ProjectP.id} :
       RaceBegin(w, folder_name, parent_arg)
  \/ \E w \in Workers, raises \in BOOLEAN, desc \in ListOrders(files) :
       RaceList(w, raises, desc)
  \/ \E w \in Workers, raises \in BOOLEAN : RaceCreate(w, raises)

SpecRace == InitRace /\ [][NextRace]_vars

\* C8: when two overlapping exact-name calls for the same parent and name
\* have both returned without a remote error, they returned the same id and
\* exactly one folder of that name is a child of parent.
C8_ConcurrentIdempotent ==
  ( /\ \A w \in Workers : procs[w].pc = "done" /\ ~procs[w].raised
    /\ procs[1].name = procs[2].name
    /\ procs[1].parent = procs[2].parent )
  => /\ procs[1].ret = procs[2].ret
     /\ procs[1].ret # None
     /\ Cardinality(FoldersNamed(files, procs[1].parent, procs[1].name)) = 1

\* C17: a step never removes a key of folders_cache and never changes the
\* id a key maps to.
C17_CacheAddOnly ==
  [][\A k \in DOMAIN folders_cache :
       k \in DOMAIN folders_cache' /\ folders_cache'[k] = folders_cache[k]]_vars

\* C23: every entry (parent, name) -> id of folders_cache refers to a folder
\* of the store that is a child of parent and has exactly that name.
C23_CacheEntriesCorrect ==
  \A k \in DOMAIN folders_cache :
    \E f \in files :
      /\ f.id = folders_cache[k]
      /\ f.parent = k[1]
      /\ f.name = k[2]
      /\ f.mimeType = FOLDER

\* two racing callers have both created a folder of the same name under the
\* project folder, and the cache holds an entry for it
C23_Witness ==
  /\ \A w \in Workers : procs[w].pc = "done" /\ procs[w].ret # None
  /\ procs[1].name = procs[2].name
  /\ procs[1].parent = ProjectP.id
  /\ procs[2].parent = ProjectP.id
  /\ procs[1].ret # procs[2].ret
  /\ <<ProjectP.id, procs[1].name>> \in DOMAIN folders_cache

-----------------------------------------------------------------------------
(* GoogleDriveService.fetch_files_in_folder                                *)

RECURSIVE SeqOfSet(_, _)
\* the files of S as a list, in listing order
SeqOfSet(S, desc) ==
  IF S = {} THEN <<>>
  ELSE LET a == CHOOSE x \in S : \A y \in S \ {x} : ListedBefore(x, y, desc)
       IN  <<a>> \o SeqOfSet(S \ {a}, desc)

\* fetch_files_in_folder without the availability check
fetch_files_in_folder_unchecked(s, folder, fails, desc) ==
  IF (s.calls + 1) \in fails
    THEN [s EXCEPT !.calls = s.calls + 1, !.ret = <<>>]
    ELSE [s EXCEPT !.calls = s.calls + 1,
                   !.ret = SeqOfSet({f \in s.files : f.parent = folder}, desc)]

\* returns the service state with ret the list of children ([] when the
\* service is off or the call raises)
fetch_files_in_folder(s, folder, fails, desc) ==
  IF ~s.enabled
    THEN [s EXCEPT !.ret = <<>>]
  ELSE IF (s.calls + 1) \in fails
    THEN [s EXCEPT !.calls = s.calls + 1, !.ret = <<>>]
  ELSE [s EXCEPT !.calls = s.calls + 1,
                 !.ret = SeqOfSet({f \in s.files : f.parent = folder}, desc)]

-----------------------------------------------------------------------------
(* project_setup_task and DriveTemplateService.clone_template_to_project   *)
(* run one after the other (SpecClone)                                      *)

\* runs of project_setup_task in one behaviour
MaxRuns == 2

\* what the master template may hold at its top level: folders "Element 0",
\* "Element 1", a second "Element 1", and a file "A"
TemplateItems ==
  { File(3, <<"E", "l", "e", "m", "e", "n", "t", " ", "0">>, master_template_id, FOLDER),
    File(4, <<"E", "l", "e", "m", "e", "n", "t", " ", "1">>, master_template_id, FOLDER),
    File(5, <<"E", "l", "e", "m", "e", "n", "t", " ", "1">>, master_template_id, FOLDER),
    File(6, <<"A">>, master_template_id, PLAIN) }

NoClone ==
  [run |-> 0, pc |-> "idle", project_folder_id |-> None, elements |-> <<>>,
   log |-> <<>>, tasks |-> <<>>, clean |-> TRUE,
   prevClean |-> FALSE, prevFiles |-> {}]

InitClone ==
  /\ \E t \in SUBSET TemplateItems : files = t
  /\ folders_cache = <<>>
  /\ nextId = master_template_id + Cardinality(TemplateItems) + 1
  /\ enabled = TRUE
  /\ hist = <<>>
  /\ nested = <<>>
  /\ procs = <<>>
  /\ clone = NoClone
  /\ toc = <<>>
  /\ scan = <<>>
  /\ req = <<>>
  /\ db = <<>>
  /\ rate = <<>>

\* a loop over all elements, files included
element_folders_unfiltered(elements) == elements

\* element_folders = [e for e in elements if e['mimeType'] == folder]
element_folders(elements) == SelectSeq(elements, LAMBDA e : e.mimeType = FOLDER)

\* project_setup_task up to the loop of clone_template_to_project: the
\* project folder is resolved, the template's top level is listed
ProjectSetupTask(fails, desc) ==
  \E s \in {State(files, folders_cache, nextId, enabled)} :
  \E p \in {find_or_create_folder(s, ProjectName, None, FALSE, fails, desc)} :
  \E l \in {fetch_files_in_folder(p, master_template_id, fails, desc)} :
    /\ clone.pc \in {"idle", "done"}
    /\ clone.run < MaxRuns
    /\ files' = p.files
    /\ folders_cache' = p.cache
    /\ nextId' = p.nextId
    /\ clone' =
         [run |-> clone.run + 1,
          pc |-> IF p.ret = None \/ l.ret = <<>> THEN "done"
                 ELSE IF element_folders(l.ret) = <<>> THEN "gather"
                 ELSE "loop",
          project_folder_id |-> p.ret,
          elements |-> IF p.ret = None THEN <<>> ELSE element_folders(l.ret),
          log |-> <<>>,
          tasks |-> <<>>,
          clean |-> IF p.ret = None
                      THEN FALSE
                      ELSE (fails \cap (1..l.calls)) = {},
          prevClean |-> clone.run >= 1 /\ clone.pc = "done" /\ clone.clean,
          prevFiles |-> files]
    /\ UNCHANGED <<enabled, hist, nested, procs, toc, scan, req, db, rate>>

\* one pass of `for element in element_folders`: the destination folder is
\* resolved and, if there is one, the webhook call is handed to the executor
CloneElement(fails, desc) ==
  /\ clone.pc = "loop"
  /\ \E s \in {State(files, folders_cache, nextId, enabled)} :
     \E element \in {Head(clone.elements)} :
     \E r \in {find_or_create_folder(s, element.name, clone.project_folder_id,
                                     FALSE, fails, desc)} :
    /\ files' = r.files
    /\ folders_cache' = r.cache
    /\ nextId' = r.nextId
    /\ clone' =
         [clone EXCEPT
            !.elements = Tail(clone.elements),
            !.pc = IF Len(clone.elements) = 1 THEN "gather" ELSE "loop",
            !.log = Append(clone.log, [sourceId |-> element.id, dest |-> r.ret]),
            !.clean = clone.clean /\ (fails \cap (1..r.calls)) = {},
            !.tasks = IF r.ret # None
                        THEN Append(clone.tasks,
                               [sourceId |-> element.id, destinationId |-> r.ret,
                                projectTitle |-> element.name, status |-> "pending",
                                at |-> None])
                        ELSE clone.tasks]
    /\ UNCHANGED <<enabled, hist, nested, procs, toc, scan, req, db, rate>>

\* an executor thread runs trigger_gas: requests.post(GAS_URL, json=payload)
\* is accepted or raises (timeout, connection error)
TriggerGas(k, accepted) ==
  /\ k \in 1..Len(clone.tasks)
  /\ clone.tasks[k].status = "pending"
  /\ clone' = [clone EXCEPT !.tasks[k].status = IF accepted THEN "sent" ELSE "failed",
                            !.tasks[k].at = nextId]
  /\ UNCHANGED <<files, folders_cache, nextId, enabled, hist, nested, procs, toc, scan, req, db, rate>>

\* await asyncio.gather(*tasks) returns or raises into the except clause
CloneGather ==
  /\ clone.pc = "gather"
  /\ \A k \in 1..Len(clone.tasks) : clone.tasks[k].status # "pending"
  /\ clone' = [clone EXCEPT !.pc = "done"]
  /\ UNCHANGED <<files, folders_cache, nextId, enabled, hist, nested, procs, toc, scan, req, db, rate>>

\* a new process between two runs
CloneRestart ==
  /\ clone.pc = "done"
  /\ folders_cache # <<>>
  /\ folders_cache' = <<>>
  /\ UNCHANGED <<files, nextId, enabled, hist, nested, procs, clone, toc, scan, req, db, rate>>

NextClone ==
  \/ \E fails \in FailSets(3), desc \in BOOLEAN : ProjectSetupTask(fails, desc)
  \/ \E fails \in FailSets(2), desc \in ListOrders(files) : CloneElement(fails, desc)
  \/ \E k \in 1..Len(clone.tasks), accepted \in BOOLEAN : TriggerGas(k, accepted)
  \/ CloneGather
  \/ CloneRestart

SpecClone == InitClone /\ [][NextClone]_vars

-----------------------------------------------------------------------------
(* Properties of SpecClone *)

\* C9: a run of project_setup_task / clone_template_to_project that follows
\* a completed run in which no Drive call raised leaves the store exactly as
\* that run left it: it creates no folder, so the destination keeps the same
\* top-level folders.
C9_IdempotentClone ==
  (clone.run >= 2 /\ clone.prevClean) => files = clone.prevFiles

C9_Witness ==
  /\ clone.run = 2
  /\ clone.prevClean
  /\ clone.pc = "done"
  /\ clone.clean
  /\ Len(clone.log) >= 2
  /\ \E k \in 1..Len(clone.tasks) : clone.tasks[k].status = "sent"

\* C10: every populate signal handed to the executor or sent carries as
\* destinationId the id of a folder that is a child of the project folder,
\* has the name of the template folder sourceId, and existed before the
\* signal was sent; a template folder whose destination was not resolved
\* has no signal.
C10_ContainerBeforeSignal ==
  /\ \A k \in 1..Len(clone.tasks) :
       LET t == clone.tasks[k]
       IN  /\ t.destinationId # None
           /\ \E f \in files, src \in files :
                /\ f.id = t.destinationId
                /\ f.parent = clone.project_folder_id
                /\ f.mimeType = FOLDER
                /\ src.id = t.sourceId
                /\ src.parent = master_template_id
                /\ src.mimeType = FOLDER
                /\ f.name = src.name
                /\ t.projectTitle = src.name
                /\ t.status # "pending" => f.id < t.at
  /\ \A j \in 1..Len(clone.log) :
       clone.log[j].dest = None =>
         \A k \in 1..Len(clone.tasks) : clone.tasks[k].sourceId # clone.log[j].sourceId

C10_Witness ==
  /\ \E k \in 1..Len(clone.tasks) : clone.tasks[k].status = "sent"
  /\ \E j \in 1..Len(clone.log) : clone.log[j].dest = None

\* the folders directly inside the master template
TopLevelTemplateFolders ==
  {f \in files : f.parent = master_template_id /\ f.mimeType = FOLDER}

\* C27: a run of clone_template_to_project has handed over exactly one
\* signal for every template folder whose destination was resolved, with
\* that folder as sourceId, and none for anything else; a run that is over
\* went through every top-level template folder, unless the listing was
\* empty or raised, and then it created no folder and sent no signal; and
\* when the run is over every signal handed over was sent or has failed on
\* its own, whatever became of the others.
C27_OneSignalPerFolder ==
  /\ \A j \in 1..Len(clone.log) :
       Cardinality({k \in 1..Len(clone.tasks) :
                      clone.tasks[k].sourceId = clone.log[j].sourceId})
         = IF clone.log[j].dest # None THEN 1 ELSE 0
  /\ \A k \in 1..Len(clone.tasks) :
       /\ \E f \in TopLevelTemplateFolders : f.id = clone.tasks[k].sourceId
       /\ \E j \in 1..Len(clone.log) : clone.log[j].sourceId = clone.tasks[k].sourceId
  /\ (clone.pc = "done" /\ clone.run >= 1) =>
       /\ \A k \in 1..Len(clone.tasks) : clone.tasks[k].status \in {"sent", "failed"}
       /\ clone.log # <<>> =>
            {clone.log[j].sourceId : j \in 1..Len(clone.log)}
              = {f.id : f \in TopLevelTemplateFolders}
       /\ clone.log = <<>> =>
            /\ clone.tasks = <<>>
            /\ \A f \in files \ clone.prevFiles :
                 f.parent = folder_id /\ f.name = ProjectName

\* a finished run over a template with two folders and a file: the first
\* signal failed, the second was sent, and the file has none
C27_Witness ==
  /\ clone.pc = "done"
  /\ Len(clone.tasks) = 2
  /\ clone.tasks[1].status = "failed"
  /\ clone.tasks[2].status = "sent"
  /\ \E f \in files : f.parent = master_template_id /\ f.mimeType = PLAIN

-----------------------------------------------------------------------------
(* DaftarIsiService: the table of contents of a project folder             *)

\* DaftarIsiService.DAFTAR_ISI_FILENAME = "DAFTAR ISI.pdf"
DAFTAR_ISI_FILENAME ==
  <<"D", "A", "F", "T", "A", "R", " ", "I", "S", "I", ".", "p", "d", "f">>

PDF == "application/pdf"

\* list s without its i-th element
RemoveAt(s, i) == SubSeq(s, 1, i - 1) \o SubSeq(s, i + 1, Len(s))

RECURSIVE sort_by_name(_)
\* folders.sort(key=lambda x: x.get('name', '')): a stable sort by the
\* name compared as str
sort_by_name(items) ==
  IF items = <<>> THEN <<>>
  ELSE LET i == CHOOSE k \in 1..Len(items) :
                  /\ \A j \in 1..Len(items) : ~StrLess(items[j].name, items[k].name)
                  /\ \A j \in 1..(k - 1) : items[j].name # items[k].name
       IN  <<items[i]>> \o sort_by_name(RemoveAt(items, i))

\* items = fetch_files_in_folder(folder); the folders among them, sorted
sorted_folders(s, folder, fails, desc) ==
  LET r == fetch_files_in_folder(s, folder, fails, desc)
  IN  [s |-> r,
       list |-> sort_by_name(SelectSeq(r.ret, LAMBDA item : item.mimeType = FOLDER))]

RECURSIVE scan_sub_folders(_, _, _, _)
\* for sub in sub_folders: the third level is listed, its folders recorded
scan_sub_folders(s, sub_folders, fails, desc) ==
  IF sub_folders = <<>> THEN [s |-> s, out |-> <<>>]
  ELSE LET sub  == Head(sub_folders)
           l    == sorted_folders(s, sub.id, fails, desc)
           sub_data == [id |-> sub.id, name |-> sub.name,
                        children |-> [i \in 1..Len(l.list) |->
                                        [id |-> l.list[i].id, name |-> l.list[i].name,
                                         children |-> <<>>]]]
           rest == scan_sub_folders(l.s, Tail(sub_folders), fails, desc)
       IN  [s |-> rest.s, out |-> <<sub_data>> \o rest.out]

RECURSIVE scan_folders(_, _, _, _)
\* for folder in folders: the second level is listed and scanned
scan_folders(s, folders, fails, desc) ==
  IF folders = <<>> THEN [s |-> s, out |-> <<>>]
  ELSE LET folder == Head(folders)
           l      == sorted_folders(s, folder.id, fails, desc)
           c      == scan_sub_folders(l.s, l.list, fails, desc)
           folder_data == [id |-> folder.id, name |-> folder.name, children |-> c.out]
           rest   == scan_folders(c.s, Tail(folders), fails, desc)
       IN  [s |-> rest.s, out |-> <<folder_data>> \o rest.out]

\* returns [s, out]: the service state and the list `structure`
_scan_folder_structure(s, folder, fails, desc) ==
  LET l == sorted_folders(s, folder, fails, desc)
  IN  scan_folders(l.s, l.list, fails, desc)

RECURSIVE story_of(_, _)
\* the link paragraphs _generate_pdf appends to the story, in order: one
\* per node of the structure, its level, name and folder id (the url)
story_of(structure, level) ==
  IF structure = <<>> THEN <<>>
  ELSE <<[level |-> level, name |-> Head(structure).name, id |-> Head(structure).id]>>
         \o story_of(Head(structure).children, level + 1)
         \o story_of(Tail(structure), level)

\* _generate_pdf: the document is its title and its story
_generate_pdf(project_name, structure) ==
  [title |-> project_name, story |-> story_of(structure, 0)]

\* a deletion loop without the break: every reserved-name child is deleted
_delete_existing_no_break(s, folder, fails, desc) ==
  LET l    == fetch_files_in_folder(s, folder, fails, desc)
      hits == SelectSeq(l.ret, LAMBDA item : item.name = DAFTAR_ISI_FILENAME)
  IN  IF hits = <<>>
        THEN [s |-> l, deleted |-> None, raised |-> l.calls \in fails]
        ELSE [s |-> [l EXCEPT !.calls = l.calls + Len(hits),
                              !.files = {f \in l.files : f.name # DAFTAR_ISI_FILENAME}],
              deleted |-> Head(hits).id, raised |-> FALSE]

\* returns [s, deleted, raised]: the id deleted (None if none) and whether
\* the listing (inside fetch_files_in_folder) or the delete call raised
_delete_existing_daftar_isi(s, folder, fails, desc) ==
  LET l    == fetch_files_in_folder(s, folder, fails, desc)
      hits == SelectSeq(l.ret, LAMBDA item : item.name = DAFTAR_ISI_FILENAME)
      nDel == l.calls + 1
  IN  IF hits = <<>>
        THEN [s |-> l, deleted |-> None, raised |-> l.calls \in fails]
      ELSE IF nDel \in fails
        THEN [s |-> [l EXCEPT !.calls = nDel], deleted |-> None, raised |-> TRUE]
      ELSE [s |-> [l EXCEPT !.calls = nDel, !.files = l.files \ {Head(hits)}],
            deleted |-> Head(hits).id, raised |-> FALSE]

\* returns the service state with ret the new file's id, None when
\* files().create raised
_upload_pdf(s, folder, fails) ==
  LET nCreate == s.calls + 1
      new == File(s.nextId, DAFTAR_ISI_FILENAME, folder, PDF)
  IN  IF nCreate \in fails
        THEN [s EXCEPT !.calls = nCreate, !.ret = None]
        ELSE [s EXCEPT !.calls = nCreate,
                       !.files = s.files \cup {new},
                       !.nextId = s.nextId + 1,
                       !.ret = new.id]

\* what a run of generate_and_upload did
TocRun(s, ret, exc, pdf, deleted, uploaded, flags) ==
  [s |-> s, ret |-> ret, exc |-> exc, pdf |-> pdf,
   events |-> (IF deleted # None THEN <<[kind |-> "delete", id |-> deleted]>> ELSE <<>>)
              \o (IF uploaded # None THEN <<[kind |-> "upload", id |-> uploaded]>> ELSE <<>>),
   flags |-> flags]

NoFlags ==
  [scanned |-> FALSE, rendered |-> FALSE, deleteRaised |-> FALSE,
   uploadTried |-> FALSE, uploadRaised |-> FALSE]

\* the statements of generate_and_upload without the try/except around
\* them: exc is TRUE when an exception leaves them (_generate_pdf raised)
generate_and_upload_body(s, project_folder_id, project_name, fails, renderRaises, desc) ==
  IF ~s.enabled
    THEN TocRun(s, FALSE, FALSE, <<>>, None, None, NoFlags)
  ELSE
    Bind(_scan_folder_structure(s, project_folder_id, fails, desc), LAMBDA sc :
      IF sc.out = <<>>
        THEN TocRun(sc.s, FALSE, FALSE, <<>>, None, None, NoFlags)
      ELSE IF renderRaises
        THEN TocRun(sc.s, FALSE, TRUE, <<>>, None, None,
                    [NoFlags EXCEPT !.scanned = TRUE])
      ELSE
        Bind(_delete_existing_daftar_isi(sc.s, project_folder_id, fails, desc), LAMBDA d :
        Bind(_upload_pdf(d.s, project_folder_id, fails), LAMBDA u :
          TocRun(u, u.ret # None, FALSE, _generate_pdf(project_name, sc.out),
                 d.deleted, u.ret,
                 [scanned |-> TRUE, rendered |-> TRUE, deleteRaised |-> d.raised,
                  uploadTried |-> TRUE, uploadRaised |-> u.ret = None]))))

\* generate_and_upload without the except clause
generate_and_upload_unguarded(s, project_folder_id, project_name, fails, renderRaises, desc) ==
  generate_and_upload_body(s, project_folder_id, project_name, fails, renderRaises, desc)

\* generate_and_upload with its except clause (lines 97-99): an exception
\* of the body is logged and False is returned
generate_and_upload(s, project_folder_id, project_name, fails, renderRaises, desc) ==
  Bind(generate_and_upload_body(s, project_folder_id, project_name,
                                fails, renderRaises, desc), LAMBDA b :
    IF b.exc THEN [b EXCEPT !.exc = FALSE, !.ret = FALSE] ELSE b)

-----------------------------------------------------------------------------
(* Runs of generate_and_upload for one project folder (SpecToc)            *)

\* documents one behaviour of SpecToc may upload
MaxToc == 2

\* folders the project folder may hold before the first run: "1.1 A",
\* "1.10 B", "1.2 C" at the top, "2.1 H" inside "1.1 A", "A" inside that,
\* and "B" one level further down
TocTop ==
  { File(4, <<"1", ".", "1", " ", "A">>, ProjectP.id, FOLDER),
    File(5, <<"1", ".", "1", "0", " ", "B">>, ProjectP.id, FOLDER),
    File(6, <<"1", ".", "2", " ", "C">>, ProjectP.id, FOLDER) }

TocDeep ==
  { File(7, <<"2", ".", "1", " ", "H">>, 4, FOLDER),
    File(8, <<"A">>, 7, FOLDER),
    File(9, <<"B">>, 8, FOLDER) }

FirstTocId == ProjectP.id + Cardinality(TocTop) + Cardinality(TocDeep) + 1

InitToc ==
  /\ \E top \in SUBSET TocTop, deep \in {{}, TocDeep} :
       /\ deep # {} => \E f \in top : f.id = 4
       /\ files = {ProjectP} \cup top \cup deep
  /\ folders_cache = <<>>
  /\ nextId = FirstTocId
  /\ enabled = TRUE
  /\ hist = <<>>
  /\ nested = <<>>
  /\ procs = <<>>
  /\ clone = <<>>
  /\ toc = <<>>
  /\ scan = <<>>
  /\ req = <<>>
  /\ db = <<>>
  /\ rate = <<>>

\* one run of regenerate_daftar_isi_for_project(project_folder_id, name)
GenerateAndUpload(fails, renderRaises, desc) ==
  \E s \in {State(files, folders_cache, nextId, enabled)} :
  \E g \in {generate_and_upload(s, ProjectP.id, ProjectName, fails, renderRaises, desc)} :
      /\ g.s.nextId <= FirstTocId + MaxToc
      /\ files' = g.s.files
      /\ folders_cache' = g.s.cache
      /\ nextId' = g.s.nextId
      /\ toc' = [ret |-> g.ret, exc |-> g.exc, pdf |-> g.pdf, events |-> g.events,
                 flags |-> g.flags, before |-> files]
      /\ UNCHANGED <<enabled, hist, nested, procs, clone, scan, req, db, rate>>

\* the number of remote calls of a run in which none raises
TocCalls(desc) ==
  generate_and_upload(State(files, folders_cache, nextId, enabled),
                      ProjectP.id, ProjectName, {}, FALSE, desc).s.calls

NextToc ==
  \E renderRaises \in BOOLEAN, desc \in ListOrders(files) :
    \E fails \in FailSets(TocCalls(desc)) :
      GenerateAndUpload(fails, renderRaises, desc)

SpecToc == InitToc /\ [][NextToc]_vars

-----------------------------------------------------------------------------
(* Properties of SpecToc *)

\* the direct children of the project folder with the reserved name
TocDocuments(F) ==
  {f \in F : f.parent = ProjectP.id /\ f.name = DAFTAR_ISI_FILENAME}

EventsOf(kind) == SelectSeq(toc.events, LAMBDA e : e.kind = kind)

\* C11: the project folder never has more than one direct child named
\* "DAFTAR ISI.pdf".
C11_AtMostOneToc == Cardinality(TocDocuments(files)) <= 1

\* C12 as stated: a run deletes exactly one node, a reserved-name document,
\* and then uploads when such a document was present; it deletes nothing
\* and uploads exactly once when none was present.
C12_DeleteThenUpload ==
  toc # <<>> =>
    IF TocDocuments(toc.before) # {}
      THEN /\ Len(toc.events) = 2
           /\ toc.events[1].kind = "delete"
           /\ toc.events[1].id \in {f.id : f \in TocDocuments(toc.before)}
           /\ toc.events[2].kind = "upload"
      ELSE /\ Len(EventsOf("delete")) = 0
           /\ Len(EventsOf("upload")) = 1

\* C12 amended: a run whose scan found a folder under the root and whose
\* rendering succeeded deletes one node, a document with the reserved name,
\* when one is present and neither the listing nor the delete call raises,
\* and no node otherwise; it uploads once unless the upload call raises, and
\* a deletion comes before the upload.  A run whose scan found no folder
\* (the root has none, or its listing raised) or whose rendering raised
\* deletes nothing and uploads nothing.
C12_DeleteThenUploadWhenScanned ==
  toc # <<>> =>
    LET docs == TocDocuments(toc.before)
        dels == EventsOf("delete")
        ups  == EventsOf("upload")
        gone == {f \in toc.before : \E i \in 1..Len(dels) : dels[i].id = f.id}
        new  == {f \in files : \E i \in 1..Len(ups) : ups[i].id = f.id}
    IN  /\ toc.flags.scanned =>
             \E f \in toc.before : f.parent = ProjectP.id /\ f.mimeType = FOLDER
        /\ toc.flags.rendered => toc.flags.scanned
        /\ IF toc.flags.rendered
             THEN /\ Len(dels) = IF docs # {} /\ ~toc.flags.deleteRaised THEN 1 ELSE 0
                  /\ gone \subseteq docs
                  /\ Len(ups) = IF toc.flags.uploadRaised THEN 0 ELSE 1
                  /\ toc.events = dels \o ups
                  /\ files = (toc.before \ gone) \cup new
                  /\ new \cap toc.before = {}
                  /\ new \subseteq TocDocuments(files)
             ELSE toc.events = <<>> /\ files = toc.before

C12_Witness ==
  /\ toc # <<>>
  /\ TocDocuments(toc.before) # {}
  /\ Len(toc.events) = 2
  /\ toc.events[1].kind = "delete"
  /\ toc.events[2].kind = "upload"
  /\ Cardinality(TocDocuments(files)) = 1

\* one decimal digit
isdigit(c) == Ord[c] >= 48 /\ Ord[c] <= 57

RECURSIVE int_of(_)
\* int(digits)
int_of(digits) ==
  IF digits = <<>> THEN 0
  ELSE 10 * int_of(SubSeq(digits, 1, Len(digits) - 1)) + (Ord[digits[Len(digits)]] - 48)

\* the leading dotted-number prefix of a name as a list of integers, <<>>
\* when the name does not start with one
DottedPrefix(name) ==
  LET comps == split(split(name, " ")[1], ".")
  IN  IF \A i \in 1..Len(comps) :
           comps[i] # <<>> /\ \A j \in 1..Len(comps[i]) : isdigit(comps[i][j])
        THEN [i \in 1..Len(comps) |-> int_of(comps[i])]
        ELSE <<>>

\* a < b component-wise as integers, a proper prefix first
DottedLess(a, b) ==
  \E i \in 1..(Len(a) + 1) :
     /\ \A j \in 1..(i - 1) : j <= Len(b) /\ a[j] = b[j]
     /\ \/ (i = Len(a) + 1 /\ Len(b) >= i)
        \/ (i <= Len(a) /\ i <= Len(b) /\ a[i] < b[i])

\* entries i < j of the story are siblings: same level, nothing of a
\* higher level between them
StorySiblings(story, i, j) ==
  /\ i < j
  /\ story[i].level = story[j].level
  /\ \A k \in (i + 1)..(j - 1) : story[k].level >= story[i].level

\* C13: in the rendered table of contents, siblings with a dotted-number
\* prefix appear in ascending component-wise integer order, other siblings
\* in lexicographic order.
C13_NumericOrder ==
  (toc # <<>> /\ toc.flags.rendered) =>
    \A i \in 1..Len(toc.pdf.story), j \in 1..Len(toc.pdf.story) :
      StorySiblings(toc.pdf.story, i, j) =>
        LET a == toc.pdf.story[i].name
            b == toc.pdf.story[j].name
        IN  IF DottedPrefix(a) # <<>> /\ DottedPrefix(b) # <<>>
              THEN ~DottedLess(DottedPrefix(b), DottedPrefix(a))
              ELSE ~StrLess(b, a)

\* C14: generate_and_upload never raises; it returns True exactly when its
\* upload call created the document; a run whose scan found nothing, whose
\* rendering raised or whose upload raised returns False; when only the
\* deletion of the stale document failed, the upload is still attempted and
\* the result is the upload's.
C14_TrueOnlyIfUploaded ==
  toc # <<>> =>
    /\ ~toc.exc
    /\ toc.ret \in BOOLEAN
    /\ toc.ret <=> (\E f \in TocDocuments(files) \ toc.before : TRUE)
    /\ toc.ret <=> Len(EventsOf("upload")) = 1
    /\ (~toc.flags.scanned \/ ~toc.flags.rendered \/ toc.flags.uploadRaised) => ~toc.ret
    /\ (toc.flags.rendered /\ toc.flags.deleteRaised) =>
         /\ toc.flags.uploadTried
         /\ toc.ret = ~toc.flags.uploadRaised

C14_Witness ==
  /\ toc # <<>>
  /\ toc.flags.deleteRaised
  /\ TocDocuments(toc.before) # {}
  /\ toc.ret

-----------------------------------------------------------------------------
(* DriveTemplateService.get_template_structure                             *)

\* str.upper() of one character
upper_char(c) ==
  IF Ord[c] >= 97 /\ Ord[c] <= 122
    THEN CHOOSE u \in DOMAIN Ord : Ord[u] = Ord[c] - 32
    ELSE c

\* an upper() that changes nothing
upper_unchanged(s) == s

\* s.upper()
upper(s) == [i \in 1..Len(s) |-> upper_char(s[i])]

\* name.split(' ', 1): at most one split, at the first space
split_once(name) ==
  LET i == IndexOf(name, " ")
  IN  IF i = 0 THEN <<name>>
      ELSE <<SubSeq(name, 1, i - 1), SubSeq(name, i + 1, Len(name))>>

\* a test that asks for a digit only
looks_like_code_digit_only(code) ==
  \E i \in 1..Len(code) : Ord[code[i]] >= 48 /\ Ord[code[i]] <= 57

\* any(c.isdigit() for c in code) and '.' in code
looks_like_code(code) ==
  /\ \E i \in 1..Len(code) : Ord[code[i]] >= 48 /\ Ord[code[i]] <= 57
  /\ \E i \in 1..Len(code) : code[i] = "."

RECURSIVE str_of(_)
\* str(n) of a non-negative integer
str_of(n) ==
  LET last == CHOOSE c \in DOMAIN Ord : Ord[c] = 48 + (n % 10)
  IN  IF n < 10 THEN <<last>> ELSE str_of(n \div 10) \o <<last>>

\* category_map.get(element_num, "Other")
category_of(element_num) ==
  CASE element_num = <<"0">> -> "Core Documents"
    [] element_num = <<"1">> -> "Management"
    [] element_num = <<"2">> -> "Safety Signs"
    [] element_num = <<"3">> -> "HSE Facilities"
    [] element_num = <<"4">> -> "Safety Committee"
    [] element_num = <<"5">> -> "Inspection"
    [] element_num = <<"6">> -> "Security"
    [] OTHER -> "Other"

ELEMENT_0 == <<"E", "L", "E", "M", "E", "N", "T", " ", "0">>

RECURSIVE _scan_recursive(_, _, _, _, _)
RECURSIVE scan_loop(_, _, _, _, _, _)

\* for folder in folders, with the counter folder_idx; acc is
\* [s, tasks, listed]: the service state, tasks_list, and the folders
\* whose children were requested so far
scan_loop(acc, folders, folder_idx, current_path, fails, desc) ==
  IF folders = <<>> THEN acc
  ELSE
    LET folder == Head(folders)
        name   == folder.name
        parts  == split_once(name)
        is_element_0 == upper(current_path) = ELEMENT_0
        synth  == is_element_0 /\ ~looks_like_code(parts[1])
        code   == IF synth THEN <<"0", ".">> \o str_of(folder_idx) ELSE parts[1]
        title  == IF synth THEN name
                  ELSE IF Len(parts) > 1 THEN parts[2] ELSE <<>>
        entry  == [code |-> code,
                   title |-> IF title # <<>> THEN upper(title) ELSE code,
                   category |-> category_of(split(code, ".")[1])]
        acc2   == IF looks_like_code(code)
                    THEN [acc EXCEPT !.tasks = Append(@, entry)]
                    ELSE acc
        sub    == _scan_recursive(acc2, folder.id, name, fails, desc)
    IN  scan_loop(sub, Tail(folders), IF synth THEN folder_idx + 1 ELSE folder_idx,
                  current_path, fails, desc)

\* a scan that a failed listing ends: nothing is listed after it
_scan_recursive_aborting(acc, folder, current_path, fails, desc) ==
  IF ~acc.s.enabled THEN acc
  ELSE
    LET r == fetch_files_in_folder(acc.s, folder, fails, desc)
        folders == SelectSeq(r.ret, LAMBDA item : item.mimeType = FOLDER)
    IN  IF r.calls \in fails
          THEN [acc EXCEPT !.s = [r EXCEPT !.enabled = FALSE],
                           !.listed = Append(@, folder)]
          ELSE scan_loop([acc EXCEPT !.s = r, !.listed = Append(@, folder)],
                         folders, 1, current_path, fails, desc)

_scan_recursive(acc, folder, current_path, fails, desc) ==
  IF ~acc.s.enabled THEN acc
  ELSE
    LET r == fetch_files_in_folder(acc.s, folder, fails, desc)
        folders == SelectSeq(r.ret, LAMBDA item : item.mimeType = FOLDER)
    IN  scan_loop([acc EXCEPT !.s = r, !.listed = Append(@, folder)],
                  folders, 1, current_path, fails, desc)

\* returns [s, tasks, listed]
get_template_structure(s, fails, desc) ==
  IF ~s.enabled
    THEN [s |-> s, tasks |-> <<>>, listed |-> <<>>]
    ELSE _scan_recursive([s |-> s, tasks |-> <<>>, listed |-> <<>>],
                         master_template_id, <<>>, fails, desc)

-----------------------------------------------------------------------------
(* Scans of the master template (SpecScan)                                 *)

\* the folder "Element 0" with what it may hold: folders "Be d" and "Hm"
\* and a file "A"
ScanElement0 == File(3, <<"E", "l", "e", "m", "e", "n", "t", " ", "0">>, master_template_id, FOLDER)

ScanUncoded ==
  { File(4, <<"B", "e", " ", "d">>, ScanElement0.id, FOLDER),
    File(5, <<"H", "m">>, ScanElement0.id, FOLDER),
    File(6, <<"A">>, ScanElement0.id, PLAIN) }

\* the chain "Element 1" / "1.1 A" / "1.1.1 B" / "A" / "B", each folder the
\* only child of the one before; ScanChain[d] is at depth d below the root
ScanChain ==
  << File(7, <<"E", "l", "e", "m", "e", "n", "t", " ", "1">>, master_template_id, FOLDER),
     File(8, <<"1", ".", "1", " ", "A">>, 7, FOLDER),
     File(9, <<"1", ".", "1", ".", "1", " ", "B">>, 8, FOLDER),
     File(10, <<"A">>, 9, FOLDER),
     File(11, <<"B">>, 10, FOLDER) >>

\* a second folder "Element 0", inside "1.1 A", holding a folder "Hm"
ScanDeepElement0 ==
  { File(12, <<"E", "l", "e", "m", "e", "n", "t", " ", "0">>, 8, FOLDER),
    File(13, <<"H", "m">>, 12, FOLDER) }

\* a folder "0.1 A" inside the top-level "Element 0"
ScanCoded == File(14, <<"0", ".", "1", " ", "A">>, ScanElement0.id, FOLDER)

\* top-level folders "3 A", ".A" and "A.1 B": a first word with a digit
\* and no '.', with a '.' and no digit, and with both
ScanWords ==
  { File(15, <<"3", " ", "A">>, master_template_id, FOLDER),
    File(16, <<".", "A">>, master_template_id, FOLDER),
    File(17, <<"A", ".", "1", " ", "B">>, master_template_id, FOLDER) }

\* the first id above those of the template trees
FirstScanId ==
  ScanElement0.id + Cardinality(ScanUncoded) + Len(ScanChain)
    + Cardinality(ScanDeepElement0 \cup {ScanCoded} \cup ScanWords) + 1

InitScan ==
  /\ \E e0 \in BOOLEAN, sub \in SUBSET ScanUncoded, d \in 0..Len(ScanChain),
        extra \in {"none", "deep", "coded", "words"} :
       /\ ~e0 => (sub = {} /\ extra # "coded")
       /\ extra = "deep" => d >= 2
       /\ extra \in {"coded", "words"} => d <= 1
       /\ files = (IF e0 THEN {ScanElement0} ELSE {}) \cup sub
                    \cup {ScanChain[i] : i \in 1..d}
                    \cup (IF extra = "deep" THEN ScanDeepElement0 ELSE {})
                    \cup (IF extra = "coded" THEN {ScanCoded} ELSE {})
                    \cup (IF extra = "words" THEN ScanWords ELSE {})
  /\ folders_cache = <<>>
  /\ nextId = FirstScanId
  /\ enabled = TRUE
  /\ hist = <<>>
  /\ nested = <<>>
  /\ procs = <<>>
  /\ clone = <<>>
  /\ toc = <<>>
  /\ scan = <<>>
  /\ req = <<>>
  /\ db = <<>>
  /\ rate = <<>>

\* template_tasks = await template_service.get_template_structure()
GetTemplateStructure(fails, desc) ==
  \E s \in {State(files, folders_cache, nextId, enabled)} :
  \E g \in {get_template_structure(s, fails, desc)} :
      /\ scan' = [tasks |-> g.tasks, listed |-> g.listed, desc |-> desc,
                  raised |-> (fails \cap (1..g.s.calls)) # {},
                  failed |-> IF (fails \cap (1..Len(g.listed))) # {}
                               THEN g.listed[CHOOSE k \in fails : TRUE]
                               ELSE None]
      /\ toc' = <<>>
      /\ UNCHANGED <<files, folders_cache, nextId, enabled, hist, nested, procs,
                     clone, req, db, rate>>

\* structure = self._scan_folder_structure(folder) on the same tree
ScanFolderStructure(fails, desc) ==
  \E s \in {State(files, folders_cache, nextId, enabled)} :
  \E g \in {_scan_folder_structure(s, master_template_id, fails, desc)} :
      /\ toc' = [out |-> g.out, desc |-> desc,
                 raised |-> (fails \cap (1..g.s.calls)) # {}]
      /\ scan' = <<>>
      /\ UNCHANGED <<files, folders_cache, nextId, enabled, hist, nested, procs,
                     clone, req, db, rate>>

\* the number of listings of a scan in which none raises
ScanCalls == get_template_structure(State(files, folders_cache, nextId, enabled), {}, FALSE).s.calls

\* the number of listings of _scan_folder_structure when none raises
FolderScanCalls ==
  _scan_folder_structure(State(files, folders_cache, nextId, enabled),
                         master_template_id, {}, FALSE).s.calls

NextScan ==
  \/ \E desc \in BOOLEAN, fails \in FailSets(ScanCalls) : GetTemplateStructure(fails, desc)
  \/ \E desc \in BOOLEAN, fails \in FailSets(FolderScanCalls) : ScanFolderStructure(fails, desc)

SpecScan == InitScan /\ [][NextScan]_vars

-----------------------------------------------------------------------------
(* Properties of SpecScan *)

\* the folders inside the top-level folder "Element 0", in listing order
Element0Folders ==
  SeqOfSet({f \in files : f.parent = ScanElement0.id /\ f.mimeType = FOLDER}, scan.desc)

\* C15: when the top-level folder "Element 0" holds only uncoded folders
\* and no listing raised, the result holds, one after the other and in the
\* order of the listing, one entry per such folder: code "0.<k>" for the
\* k-th, title the folder's name in upper case, category "Core Documents".
C15_SyntheticCodes ==
  ( /\ scan # <<>>
    /\ ~scan.raised
    /\ ScanElement0 \in files
    /\ \A i \in 1..Len(Element0Folders) :
         ~looks_like_code(split_once(Element0Folders[i].name)[1]) )
  => LET subs == Element0Folders
         want == [k \in 1..Len(subs) |->
                    [code |-> <<"0", ".">> \o str_of(k),
                     title |-> [i \in 1..Len(subs[k].name) |->
                                  IF subs[k].name[i] = "e" THEN "E"
                                  ELSE IF subs[k].name[i] = "d" THEN "D"
                                  ELSE IF subs[k].name[i] = "m" THEN "M"
                                  ELSE subs[k].name[i]],
                     category |-> "Core Documents"]]
     IN  \E off \in 0..Len(scan.tasks) :
           /\ off + Len(want) <= Len(scan.tasks)
           /\ SubSeq(scan.tasks, off + 1, off + Len(want)) = want

C15_Witness ==
  /\ scan # <<>>
  /\ ~scan.raised
  /\ scan.desc
  /\ Len(scan.tasks) = 4
  /\ scan.tasks[3].code = <<"0", ".", "1">>
  /\ scan.tasks[3].title = <<"H", "M">>
  /\ scan.tasks[4].code = <<"0", ".", "2">>
  /\ scan.tasks[4].title = <<"B", "E", " ", "D">>

RECURSIVE DepthOf(_, _)
\* the number of folders between the template root and the file with this id
DepthOf(F, id) ==
  IF id = master_template_id THEN 0
  ELSE 1 + DepthOf(F, FileById(F, id).parent)

\* C16: get_template_structure lists the children only of folders at most
\* three levels below the template root, however deep the template tree is.
C16_DepthLimited ==
  scan # <<>> =>
    \A i \in 1..Len(scan.listed) : DepthOf(files, scan.listed[i]) <= 3

\* the part of a name before its first space
FirstWord(name) ==
  IF \E i \in 1..Len(name) : name[i] = " "
    THEN SubSeq(name, 1, (CHOOSE i \in 1..Len(name) :
                            name[i] = " " /\ \A j \in 1..(i - 1) : name[j] # " ") - 1)
    ELSE name

\* the part of a code before its first '.'
FirstElement(code) ==
  IF \E i \in 1..Len(code) : code[i] = "."
    THEN SubSeq(code, 1, (CHOOSE i \in 1..Len(code) :
                            code[i] = "." /\ \A j \in 1..(i - 1) : code[j] # ".") - 1)
    ELSE code

\* the first word of the folder's name holds a digit and a '.'
Coded(f) ==
  /\ \E i \in 1..Len(FirstWord(f.name)) : isdigit(FirstWord(f.name)[i])
  /\ \E i \in 1..Len(FirstWord(f.name)) : FirstWord(f.name)[i] = "."

\* the folders of the template
TemplateFolders == {f \in files : f.mimeType = FOLDER}

\* the folder is not coded and lies directly in a folder whose name is
\* "Element 0" in any letter case, which is where the scan hands out "0.N"
InElement0(f) ==
  /\ ~Coded(f)
  /\ \E p \in TemplateFolders :
       /\ p.id = f.parent
       /\ Len(p.name) = 9
       /\ SubSeq(p.name, 1, 1) \in {<<"E">>, <<"e">>}
       /\ SubSeq(p.name, 2, 2) \in {<<"L">>, <<"l">>}
       /\ SubSeq(p.name, 3, 3) \in {<<"E">>, <<"e">>}
       /\ SubSeq(p.name, 4, 4) \in {<<"M">>, <<"m">>}
       /\ SubSeq(p.name, 5, 5) \in {<<"E">>, <<"e">>}
       /\ SubSeq(p.name, 6, 6) \in {<<"N">>, <<"n">>}
       /\ SubSeq(p.name, 7, 7) \in {<<"T">>, <<"t">>}
       /\ SubSeq(p.name, 8, 9) = <<" ", "0">>

\* the category the claim gives for the first element of a code
CategoryTable(element) ==
  IF element = <<"0">> THEN "Core Documents"
  ELSE IF element = <<"1">> THEN "Management"
  ELSE IF element = <<"2">> THEN "Safety Signs"
  ELSE IF element = <<"3">> THEN "HSE Facilities"
  ELSE IF element = <<"4">> THEN "Safety Committee"
  ELSE IF element = <<"5">> THEN "Inspection"
  ELSE IF element = <<"6">> THEN "Security"
  ELSE "Other"

\* C24: every task entry of a scan belongs to a folder whose first word
\* holds a digit and a '.', or to an uncoded folder that was given a
\* synthetic code, and there are no more entries than such folders; the
\* category of an entry is the fixed lookup of the first element of its
\* code; and a scan in which no listing raised requested the children of
\* every folder of the template, task node or not.
C24_TaskNodeClassification ==
  scan # <<>> =>
    /\ \A i \in 1..Len(scan.tasks) :
         /\ \E f \in TemplateFolders :
              \/ Coded(f) /\ scan.tasks[i].code = FirstWord(f.name)
              \/ InElement0(f) /\ SubSeq(scan.tasks[i].code, 1, 2) = <<"0", ".">>
         /\ scan.tasks[i].category = CategoryTable(FirstElement(scan.tasks[i].code))
    /\ Len(scan.tasks) <= Cardinality({f \in TemplateFolders : Coded(f) \/ InElement0(f)})
    /\ ~scan.raised =>
         /\ Len(scan.tasks) = Cardinality({f \in TemplateFolders : Coded(f) \/ InElement0(f)})
         /\ \A f \in TemplateFolders : \E i \in 1..Len(scan.listed) : scan.listed[i] = f.id

\* a scan of a template with the folders "3 A", ".A" and "A.1 B": one entry,
\* for "A.1 B", in category "Other", and the children of all three requested
C24_Witness ==
  /\ scan # <<>>
  /\ ~scan.raised
  /\ ScanWords \subseteq files
  /\ \E i \in 1..Len(scan.tasks) :
       /\ scan.tasks[i].code = <<"A", ".", "1">>
       /\ scan.tasks[i].category = "Other"
  /\ \A i \in 1..Len(scan.tasks) :
       scan.tasks[i].code \notin {<<"3">>, <<".", "A">>}
  /\ \A f \in ScanWords : \E i \in 1..Len(scan.listed) : scan.listed[i] = f.id

\* the entries with a synthetic code: code "0.N" and, as title, the full
\* name of an uncoded folder in upper case
SyntheticEntries ==
  SelectSeq(scan.tasks, LAMBDA e :
    /\ SubSeq(e.code, 1, 2) = <<"0", ".">>
    /\ \E f \in TemplateFolders : ~Coded(f) /\ e.title = upper(f.name))

\* C25: a scan gives synthetic codes only to uncoded folders directly inside
\* the top-level folder "Element 0": it returns no more synthetic entries
\* than there are such folders.
C25_SyntheticOnlyTopLevel ==
  scan # <<>> =>
    Len(SyntheticEntries)
      <= Cardinality({f \in TemplateFolders :
                        ~Coded(f) /\ ScanElement0 \in files /\ f.parent = ScanElement0.id})

RECURSIVE IsUnder(_, _, _)
\* the file lies in the folder with this id or deeper
IsUnder(F, f, id) ==
  \/ f.parent = id
  \/ \E p \in F : p.id = f.parent /\ IsUnder(F, p, id)

\* the tree in which the folder with this id has no children
Childless(F, id) == {f \in F : ~IsUnder(F, f, id)}

-----------------------------------------------------------------------------
(* GoogleDriveService.copy_file, get_file_metadata                         *)

\* returns the service state with ret the id of the copy, of the file found
\* by the skip_if_exists check, or None
copy_file(s, file_id, parent_id, new_name, skip_if_exists, fails, desc) ==
  IF ~s.enabled
    THEN [s EXCEPT !.ret = None]
  ELSE
    LET check   == skip_if_exists /\ new_name # <<>>
        nCheck  == s.calls + 1
        existing == SeqOfSet({f \in s.files : f.name = new_name /\ f.parent = parent_id}, desc)
        nCopy   == IF check THEN s.calls + 2 ELSE s.calls + 1
        src     == {f \in s.files : f.id = file_id}
        \* without a name in the body the store names the copy after the source
        new     == File(s.nextId,
                        IF new_name # <<>> THEN new_name ELSE (CHOOSE f \in src : TRUE).name,
                        parent_id,
                        (CHOOSE f \in src : TRUE).mimeType)
    IN  IF check /\ nCheck \in fails
          THEN [s EXCEPT !.calls = nCheck, !.ret = None]
        ELSE IF check /\ existing # <<>>
          THEN [s EXCEPT !.calls = nCheck, !.ret = existing[1].id]
        ELSE IF nCopy \in fails \/ src = {}
          THEN [s EXCEPT !.calls = nCopy, !.ret = None]
        ELSE [s EXCEPT !.calls = nCopy,
                       !.files = s.files \cup {new},
                       !.nextId = s.nextId + 1,
                       !.ret = new.id]

\* returns the service state with ret the dict {id, name, mimeType}, or
\* None (the service is off, the call raised, or there is no such file)
get_file_metadata(s, file_id, fails) ==
  IF ~s.enabled
    THEN [s EXCEPT !.ret = None]
  ELSE IF (s.calls + 1) \in fails \/ ~\E f \in s.files : f.id = file_id
    THEN [s EXCEPT !.calls = s.calls + 1, !.ret = None]
  ELSE [s EXCEPT !.calls = s.calls + 1,
                 !.ret = LET f == FileById(s.files, file_id)
                         IN  [id |-> f.id, name |-> f.name, mimeType |-> f.mimeType]]

-----------------------------------------------------------------------------
(* The operations of the Drive layer called on a service that is or is not *)
(* available (SpecUnavailable)                                             *)

\* folders and files one behaviour of SpecUnavailable may create
MaxOps == 2

\* the store: project folder "P" with a folder "1.1 A", the template with
\* "Element 0" holding "Hm", and a file "A" in the root folder
OpsStore ==
  { ProjectP,
    File(4, <<"1", ".", "1", " ", "A">>, ProjectP.id, FOLDER),
    File(5, <<"E", "l", "e", "m", "e", "n", "t", " ", "0">>, master_template_id, FOLDER),
    File(6, <<"H", "m">>, 5, FOLDER),
    File(7, FileName, folder_id, PLAIN) }

FirstOpsId == master_template_id + Cardinality(OpsStore) + 1

\* enabled stands for `self.enabled and self.service`: __init__ sets both,
\* once, from the outcome of the authentication
InitUnavailable ==
  /\ files = OpsStore
  /\ folders_cache = <<>>
  /\ nextId = FirstOpsId
  /\ enabled \in BOOLEAN
  /\ hist = <<>>
  /\ nested = <<>>
  /\ procs = <<>>
  /\ clone = <<>>
  /\ toc = <<>>
  /\ scan = <<>>
  /\ req = <<>>
  /\ db = <<>>
  /\ rate = <<>>

\* the operation op returned ret leaving the service state r
OpDone(op, r, ret) ==
  /\ r.nextId <= FirstOpsId + MaxOps
  /\ files' = r.files
  /\ folders_cache' = r.cache
  /\ nextId' = r.nextId
  /\ req' = [op |-> op, ret |-> ret, calls |-> r.calls,
             filesBefore |-> files, cacheBefore |-> folders_cache]
  /\ UNCHANGED <<enabled, hist, nested, procs, clone, toc, scan, db, rate>>

OpFindOrCreateFolder(prefix_search, fails, desc) ==
  \E r \in {find_or_create_folder(State(files, folders_cache, nextId, enabled),
                                  ProjectName, None, prefix_search, fails, desc)} :
    OpDone("find_or_create_folder", r, r.ret)

OpCreateNestedTaskFolder(task_code, fails, desc) ==
  \E r \in {create_nested_task_folder(State(files, folders_cache, nextId, enabled),
                                      ProjectName, task_code, <<>>, fails, desc)} :
    OpDone("create_nested_task_folder", r, r.ret)

OpUploadFileToDrive(task_code, fails, desc) ==
  \E u \in {upload_file_to_drive(State(files, folders_cache, nextId, enabled),
                                 FileName, ProjectName, task_code, <<>>, fails, desc)} :
    OpDone("upload_file_to_drive", u.s, u.result)

OpCopyFile(file_id, skip_if_exists, fails, desc) ==
  \E r \in {copy_file(State(files, folders_cache, nextId, enabled),
                      file_id, ProjectP.id, FileName, skip_if_exists, fails, desc)} :
    OpDone("copy_file", r, r.ret)

OpGetFileMetadata(file_id, fails) ==
  \E r \in {get_file_metadata(State(files, folders_cache, nextId, enabled), file_id, fails)} :
    OpDone("get_file_metadata", r, r.ret)

OpFetchFilesInFolder(folder, fails, desc) ==
  \E r \in {fetch_files_in_folder(State(files, folders_cache, nextId, enabled),
                                  folder, fails, desc)} :
    OpDone("fetch_files_in_folder", r, r.ret)

OpGetTemplateStructure(fails, desc) ==
  \E g \in {get_template_structure(State(files, folders_cache, nextId, enabled), fails, desc)} :
    OpDone("get_template_structure", g.s, g.tasks)

OpGenerateAndUpload(fails, desc) ==
  \E g \in {generate_and_upload(State(files, folders_cache, nextId, enabled),
                                ProjectP.id, ProjectName, fails, FALSE, desc)} :
    OpDone("generate_and_upload", g.s, g.ret)

NextUnavailable ==
  \/ \E prefix_search \in BOOLEAN, fails \in FailSets(1), desc \in ListOrders(files) :
       OpFindOrCreateFolder(prefix_search, fails, desc)
  \/ \E task_code \in {<<"4">>, <<"4", ".", "3">>}, fails \in FailSets(1), desc \in ListOrders(files) :
       OpCreateNestedTaskFolder(task_code, fails, desc)
  \/ \E task_code \in {<<>>, <<"4">>}, fails \in FailSets(1), desc \in ListOrders(files) :
       OpUploadFileToDrive(task_code, fails, desc)
  \/ \E file_id \in {7, FirstOpsId + MaxOps + 1}, skip_if_exists \in BOOLEAN,
        fails \in FailSets(1), desc \in ListOrders(files) :
       OpCopyFile(file_id, skip_if_exists, fails, desc)
  \/ \E file_id \in {7, FirstOpsId + MaxOps + 1}, fails \in FailSets(1) :
       OpGetFileMetadata(file_id, fails)
  \/ \E folder \in {folder_id, master_template_id}, fails \in FailSets(1), desc \in ListOrders(files) :
       OpFetchFilesInFolder(folder, fails, desc)
  \/ \E fails \in FailSets(1), desc \in ListOrders(files) : OpGetTemplateStructure(fails, desc)
  \/ \E fails \in FailSets(1), desc \in ListOrders(files) : OpGenerateAndUpload(fails, desc)

SpecUnavailable == InitUnavailable /\ [][NextUnavailable]_vars

\* the value an operation returns when it did nothing
EmptyValue(op) ==
  CASE op = "upload_file_to_drive" -> UploadResult(FALSE, None, None, None)
    [] op \in {"fetch_files_in_folder", "get_template_structure"} -> <<>>
    [] op = "generate_and_upload" -> FALSE
    [] OTHER -> None

\* C18: on a service that is not available, each of the eight operations
\* returns its empty or failure value, issues no remote call, and leaves
\* folders_cache and the store as they were.
C18_UnavailableShortCircuits ==
  (req # <<>> /\ ~enabled) =>
    /\ req.ret = EmptyValue(req.op)
    /\ req.calls = 0
    /\ folders_cache = req.cacheBefore
    /\ files = req.filesBefore

C18_Witness ==
  /\ req # <<>>
  /\ ~enabled
  /\ req.op = "generate_and_upload"
  /\ req.ret = FALSE

-----------------------------------------------------------------------------
(* The background tasks as whole runs, and the request handlers that       *)
(* schedule them (SpecUpload)                                              *)

RECURSIVE clone_elements(_, _, _, _, _)
\* for element in element_folders: acc is [s, signals]; a signal is
\* appended for every element whose destination folder was resolved
clone_elements(acc, element_folders_left, project_folder_id, fails, desc) ==
  IF element_folders_left = <<>> THEN acc
  ELSE
    Bind(Head(element_folders_left), LAMBDA element :
    Bind(find_or_create_folder(acc.s, element.name, project_folder_id, FALSE, fails, desc),
         LAMBDA r :
    Bind([s |-> r,
          signals |-> IF r.ret # None
                        THEN Append(acc.signals,
                               [sourceId |-> element.id, destinationId |-> r.ret,
                                projectTitle |-> element.name])
                        ELSE acc.signals],
         LAMBDA next :
      clone_elements(next, Tail(element_folders_left), project_folder_id, fails, desc))))

\* the try block of clone_template_to_project: exc is TRUE when an
\* exception leaves it, which is when asyncio.gather re-raises the
\* exception of a trigger_gas call (the k-th signal raises iff k is in
\* gasRaises)
clone_template_to_project_body(s, project_folder_id, fails, gasRaises, desc) ==
  Bind(fetch_files_in_folder(s, master_template_id, fails, desc), LAMBDA l :
    IF l.ret = <<>>
      THEN [s |-> l, signals |-> <<>>, exc |-> FALSE]
      ELSE Bind(clone_elements([s |-> l, signals |-> <<>>], element_folders(l.ret),
                               project_folder_id, fails, desc), LAMBDA c :
             [s |-> c.s, signals |-> c.signals,
              exc |-> \E k \in 1..Len(c.signals) : k \in gasRaises]))

\* clone_template_to_project with its except clause (lines 65-66)
clone_template_to_project(s, project_folder_id, fails, gasRaises, desc) ==
  Bind(clone_template_to_project_body(s, project_folder_id, fails, gasRaises, desc),
       LAMBDA b : [b EXCEPT !.exc = FALSE])

\* project_setup_task: returns [s, exc]; its own except clause (lines
\* 399-400) catches what the try block lets out
project_setup_task(s, project_name, fails, gasRaises, desc) ==
  Bind(find_or_create_folder(s, project_name, None, FALSE, fails, desc), LAMBDA p :
  Bind(IF p.ret # None
         THEN Bind(clone_template_to_project(p, p.ret, fails, gasRaises, desc),
                   LAMBDA c : [s |-> c.s, exc |-> c.exc])
         ELSE [s |-> p, exc |-> FALSE],
       LAMBDA body : [body EXCEPT !.exc = FALSE]))

\* the task function without a try of its own, around a generate_and_upload
\* that has none either
regenerate_daftar_isi_unguarded(s, project_folder_id, project_name, fails, renderRaises, desc) ==
  Bind(generate_and_upload_body(s, project_folder_id, project_name, fails, renderRaises, desc),
       LAMBDA g : [s |-> g.s, exc |-> g.exc])

\* regenerate_daftar_isi_for_project: returns [s, exc]; it awaits
\* generate_and_upload and has no try of its own
regenerate_daftar_isi_for_project(s, project_folder_id, project_name, fails, renderRaises, desc) ==
  Bind(generate_and_upload(s, project_folder_id, project_name, fails, renderRaises, desc),
       LAMBDA g : [s |-> g.s, exc |-> g.exc])

\* folders and files one behaviour of SpecUpload may create
MaxBg == 4

\* the template: folders "Element 0" and "Element 1"
UploadTemplate ==
  { File(3, <<"E", "l", "e", "m", "e", "n", "t", " ", "0">>, master_template_id, FOLDER),
    File(4, <<"E", "l", "e", "m", "e", "n", "t", " ", "1">>, master_template_id, FOLDER) }

FirstBgId == master_template_id + Cardinality(UploadTemplate) + 1

\* no request handled yet
NoRequest ==
  [handler |-> "", status |-> 0, upload |-> <<>>, written |-> FALSE,
   scheduled |-> <<>>, pending |-> <<>>, bg |-> <<>>]

InitUpload ==
  /\ files = UploadTemplate
  /\ folders_cache = <<>>
  /\ nextId = FirstBgId
  /\ enabled = TRUE
  /\ hist = <<>>
  /\ nested = <<>>
  /\ procs = <<>>
  /\ clone = <<>>
  /\ toc = <<>>
  /\ scan = <<>>
  /\ req = NoRequest
  /\ db = <<>>
  /\ rate = <<>>

\* POST /tasks/{task_id}/upload for a task and project that exist: the
\* upload, the attachment record (db.update_task raises or writes), the
\* scheduling, the response
UploadAttachment(task_code, fails, dbRaises, desc) ==
  /\ req.pending = <<>>
  /\ \E u \in {upload_file_to_drive(State(files, folders_cache, nextId, enabled),
                                    FileName, ProjectName, task_code, <<>>, fails, desc)} :
     \E ok \in {u.result.success /\ ~dbRaises} :
     \E tasks \in {IF ok /\ u.result.project_folder_id # None
                     THEN <<[task |-> "regenerate_daftar_isi_for_project",
                             arg |-> u.result.project_folder_id]>>
                     ELSE <<>>} :
       /\ u.s.nextId <= FirstBgId + MaxBg
       /\ files' = u.s.files
       /\ folders_cache' = u.s.cache
       /\ nextId' = u.s.nextId
       /\ req' = [handler |-> "upload_attachment",
                  status |-> IF ok THEN 200 ELSE 500,
                  upload |-> u.result,
                  written |-> ok,
                  scheduled |-> tasks,
                  pending |-> tasks,
                  bg |-> <<>>]
  /\ UNCHANGED <<enabled, hist, nested, procs, clone, toc, scan, db, rate>>

\* POST /projects: the project record is written (or db.create_project
\* raises), project_setup_task is scheduled, the project is returned
CreateProject(dbRaises) ==
  /\ req.pending = <<>>
  /\ \E tasks \in {IF dbRaises THEN <<>>
                   ELSE <<[task |-> "project_setup_task", arg |-> None]>>} :
       req' = [handler |-> "create_project",
               status |-> IF dbRaises THEN 500 ELSE 200,
               upload |-> <<>>,
               written |-> ~dbRaises,
               scheduled |-> tasks,
               pending |-> tasks,
               bg |-> <<>>]
  /\ UNCHANGED <<files, folders_cache, nextId, enabled, hist, nested, procs, clone, toc, scan, db, rate>>

\* what a finished background task looked like
BgRecord(task, r, fails, gasRaises, renderRaises) ==
  [task |-> task, exc |-> r.exc,
   failed |-> (fails \cap (1..r.s.calls)) # {} \/ gasRaises # {} \/ renderRaises]

\* after the response is sent the scheduled task runs to its end
RunBackground(fails, gasRaises, renderRaises, desc) ==
  /\ req.pending # <<>>
  /\ \E s \in {State(files, folders_cache, nextId, enabled)} :
     \E t \in {Head(req.pending)} :
     \E r \in {IF t.task = "project_setup_task"
                 THEN project_setup_task(s, ProjectName, fails, gasRaises, desc)
                 ELSE regenerate_daftar_isi_for_project(s, t.arg, ProjectName,
                                                        fails, renderRaises, desc)} :
       /\ t.task = "project_setup_task" => ~renderRaises
       /\ t.task # "project_setup_task" => gasRaises = {}
       /\ r.s.nextId <= FirstBgId + MaxBg
       /\ files' = r.s.files
       /\ folders_cache' = r.s.cache
       /\ nextId' = r.s.nextId
       /\ req' = [req EXCEPT !.pending = Tail(req.pending),
                             !.bg = BgRecord(t.task, r, fails, gasRaises, renderRaises)]
  /\ UNCHANGED <<enabled, hist, nested, procs, clone, toc, scan, db, rate>>

\* the number of remote calls of the pending task when none raises
BgCalls(desc) ==
  LET s == State(files, folders_cache, nextId, enabled)
  IN  IF req.pending = <<>> THEN 0
      ELSE IF Head(req.pending).task = "project_setup_task"
        THEN project_setup_task(s, ProjectName, {}, {}, desc).s.calls
      ELSE regenerate_daftar_isi_for_project(s, Head(req.pending).arg, ProjectName,
                                             {}, FALSE, desc).s.calls

NextUpload ==
  \/ \E task_code \in {<<>>, <<"4">>, <<"4", ".", "3">>}, dbRaises \in BOOLEAN,
        desc \in ListOrders(files) :
       \E fails \in FailSets(UploadCalls(task_code, <<>>, desc)) :
         UploadAttachment(task_code, fails, dbRaises, desc)
  \/ \E dbRaises \in BOOLEAN : CreateProject(dbRaises)
  \/ \E gasRaises \in FailSets(Cardinality(UploadTemplate)), renderRaises \in BOOLEAN,
        desc \in ListOrders(files) :
       \E fails \in FailSets(BgCalls(desc)) :
         RunBackground(fails, gasRaises, renderRaises, desc)

SpecUpload == InitUpload /\ [][NextUpload]_vars

-----------------------------------------------------------------------------
(* Properties of SpecUpload *)

\* C19: a background task that has run did not raise, whatever listing,
\* creation, signal, rendering or upload failed in it, and running it
\* leaves the response of the request that scheduled it as it was.
C19_BackgroundNeverSurfaces ==
  /\ [](req.bg # <<>> => ~req.bg.exc)
  /\ [][(req.bg = <<>> /\ req'.bg # <<>>) =>
          /\ req'.status = req.status
          /\ req'.handler = req.handler
          /\ req'.upload = req.upload]_vars

C19_Witness ==
  /\ req.bg # <<>>
  /\ req.bg.task = "project_setup_task"
  /\ req.bg.failed
  /\ req.status = 200
  /\ \E f \in files : f.name = ProjectName

\* C20: upload_attachment schedules the regeneration exactly when the
\* upload succeeded and the attachment record was written; a failed upload
\* schedules none.
C20_RegenerationAfterUpload ==
  req.handler = "upload_attachment" =>
    /\ (req.upload.success /\ req.written) => Len(req.scheduled) = 1
    /\ Len(req.scheduled) > 0 => (req.upload.success /\ req.written)
    /\ ~req.upload.success => req.scheduled = <<>>

-----------------------------------------------------------------------------
(* database.py (Database and the helper functions) over                    *)
(* services/supabase_service.py (SupabaseService)                          *)
(* A database state d is [supabase, projects, tasks, local, nextUuid]:     *)
(* supabase is SUPABASE_ENABLED, projects and tasks are the rows of the    *)
(* remote tables in insertion order, local maps each JSON file to its      *)
(* content or NoFile, nextUuid is the next value of uuid.uuid4().          *)
(* Every SupabaseService method issues one remote call, which raises iff   *)
(* remoteFails; _write_json_robust raises OSError iff writeFails.          *)
(* Every operation returns [d, ret, raised].                               *)

\* the local JSON files of database.py (lines 35-40)
PROJECTS_FILE == "projects.json"
TASKS_FILE == "tasks.json"
SCHEDULES_FILE == "schedules.json"
COMMENTS_FILE == "comments.json"
CSMS_PB_FILE == "csms_pb.json"
RELATED_DOCS_FILE == "related_docs.json"

LocalFiles ==
  {PROJECTS_FILE, TASKS_FILE, SCHEDULES_FILE, COMMENTS_FILE, CSMS_PB_FILE,
   RELATED_DOCS_FILE}

\* a file that does not exist
NoFile == [exists |-> FALSE, text |-> <<>>]

\* json.dump of a list of dicts: the text is the list of objects, an object
\* the set of its members <<key, value>>
json_dump(rows) ==
  [i \in 1..Len(rows) |-> {<<k, rows[i][k]>> : k \in DOMAIN rows[i]}]

\* json.load of such a text: each object becomes a dict again
json_load(text) ==
  [i \in 1..Len(text) |->
     [k \in {m[1] : m \in text[i]} |-> (CHOOSE m \in text[i] : m[1] = k)[2]]]

\* {**defaults, **data}: the keys of data override those of defaults
Merge(defaults, data) ==
  [k \in DOMAIN defaults \cup DOMAIN data |->
     IF k \in DOMAIN data THEN data[k] ELSE defaults[k]]

\* a Python list and the str json.dumps makes of it; json.loads is the way back
PyList(items) == [type |-> "list", items |-> items]
json_dumps(v) == [type |-> "str", items |-> v.items]
json_loads(v) == [type |-> "list", items |-> v.items]

\* if 'attachments' in row and isinstance(row['attachments'], list):
\*     row['attachments'] = json.dumps(row['attachments'])
dump_attachments(row) ==
  IF "attachments" \in DOMAIN row /\ row.attachments.type = "list"
    THEN [row EXCEPT !.attachments = json_dumps(@)]
    ELSE row

\* if 'attachments' in row and isinstance(row['attachments'], str):
\*     row['attachments'] = json.loads(row['attachments'])
load_attachments(row) ==
  IF "attachments" \in DOMAIN row /\ row.attachments.type = "str"
    THEN [row EXCEPT !.attachments = json_loads(@)]
    ELSE row

Outcome(d, ret, raised) == [d |-> d, ret |-> ret, raised |-> raised]

\* the rows of a table other than those with this id (delete().eq('id', id))
WithoutId(rows, id) == SelectSeq(rows, LAMBDA r : r.id # id)

\* the rows of a table with the row of this id updated (update().eq('id', id))
WithUpdates(rows, id, updates) ==
  [i \in 1..Len(rows) |-> IF rows[i].id = id THEN Merge(rows[i], updates) ELSE rows[i]]

\* result.data of a select or update on the rows with this id
RowsWithId(rows, id) == SelectSeq(rows, LAMBDA r : r.id = id)

(* SupabaseService: every method has its own try/except *)

supabase_get_project(d, project_id, remoteFails) ==
  IF ~d.supabase \/ remoteFails THEN Outcome(d, None, FALSE)
  ELSE Bind(RowsWithId(d.projects, project_id), LAMBDA data :
         Outcome(d, IF data # <<>> THEN data[1] ELSE None, FALSE))

supabase_create_project(d, project_data, remoteFails) ==
  IF ~d.supabase THEN Outcome(d, project_data, FALSE)
  ELSE IF remoteFails THEN Outcome(d, project_data, FALSE)
  ELSE Outcome([d EXCEPT !.projects = Append(@, project_data)], project_data, FALSE)

supabase_update_project(d, project_id, updates, remoteFails) ==
  IF ~d.supabase \/ remoteFails THEN Outcome(d, None, FALSE)
  ELSE Bind(WithUpdates(d.projects, project_id, updates), LAMBDA rows :
       Bind(RowsWithId(rows, project_id), LAMBDA data :
         Outcome([d EXCEPT !.projects = rows],
                 IF data # <<>> THEN data[1] ELSE None, FALSE)))

supabase_delete_project(d, project_id, remoteFails) ==
  IF ~d.supabase \/ remoteFails THEN Outcome(d, FALSE, FALSE)
  ELSE Outcome([d EXCEPT !.projects = WithoutId(@, project_id)], TRUE, FALSE)

\* the rows come back with their attachments parsed
supabase_get_tasks(d, project_id, remoteFails) ==
  IF ~d.supabase \/ remoteFails THEN Outcome(d, <<>>, FALSE)
  ELSE Bind(IF project_id # None
              THEN SelectSeq(d.tasks, LAMBDA t : t.project_id = project_id)
              ELSE d.tasks,
            LAMBDA data :
         Outcome(d, [i \in 1..Len(data) |-> load_attachments(data[i])], FALSE))

\* task_data is changed in place before the insert, so the dict returned
\* after a failed insert carries the dumped attachments
supabase_create_task(d, task_data, remoteFails) ==
  IF ~d.supabase THEN Outcome(d, task_data, FALSE)
  ELSE Bind(dump_attachments(task_data), LAMBDA row :
         IF remoteFails THEN Outcome(d, row, FALSE)
         ELSE Outcome([d EXCEPT !.tasks = Append(@, row)], load_attachments(row), FALSE))

supabase_update_task(d, task_id, updates, remoteFails) ==
  IF ~d.supabase \/ remoteFails THEN Outcome(d, None, FALSE)
  ELSE Bind(WithUpdates(d.tasks, task_id, dump_attachments(updates)), LAMBDA rows :
       Bind(RowsWithId(rows, task_id), LAMBDA data :
         Outcome([d EXCEPT !.tasks = rows],
                 IF data # <<>> THEN load_attachments(data[1]) ELSE None, FALSE)))

supabase_batch_create_tasks(d, tasks, remoteFails) ==
  IF ~d.supabase \/ tasks = <<>> THEN Outcome(d, tasks, FALSE)
  ELSE Bind([i \in 1..Len(tasks) |-> dump_attachments(tasks[i])], LAMBDA rows :
         IF remoteFails THEN Outcome(d, rows, FALSE)
         ELSE Outcome([d EXCEPT !.tasks = @ \o rows],
                      [i \in 1..Len(rows) |-> load_attachments(rows[i])], FALSE))

supabase_delete_task(d, task_id, remoteFails) ==
  IF ~d.supabase \/ remoteFails THEN Outcome(d, FALSE, FALSE)
  ELSE Outcome([d EXCEPT !.tasks = WithoutId(@, task_id)], TRUE, FALSE)

(* Database *)

\* Database._read_json: a missing file reads as []
_read_json(d, filepath) ==
  IF d.local[filepath].exists THEN json_load(d.local[filepath].text) ELSE <<>>

\* _write_json_robust: OSError is logged and re-raised
_write_json_robust(d, filepath, data, writeFails) ==
  IF writeFails THEN Outcome(d, None, TRUE)
  ELSE Outcome([d EXCEPT !.local[filepath] = [exists |-> TRUE, text |-> json_dump(data)]],
               None, FALSE)

get_projects(d, remoteFails) ==
  IF d.supabase
    THEN IF remoteFails THEN Outcome(d, <<>>, FALSE) ELSE Outcome(d, d.projects, FALSE)
    ELSE Outcome(d, _read_json(d, PROJECTS_FILE), FALSE)

get_project(d, project_id, remoteFails) ==
  IF d.supabase THEN supabase_get_project(d, project_id, remoteFails)
  ELSE Bind(RowsWithId(_read_json(d, PROJECTS_FILE), project_id), LAMBDA found :
         Outcome(d, IF found # <<>> THEN found[1] ELSE None, FALSE))

get_tasks(d, project_id, remoteFails) ==
  IF d.supabase THEN supabase_get_tasks(d, project_id, remoteFails)
  ELSE Bind(_read_json(d, TASKS_FILE), LAMBDA tasks :
         Outcome(d, IF project_id # None
                      THEN SelectSeq(tasks, LAMBDA t : t.project_id = project_id)
                      ELSE tasks, FALSE))

\* the value of str(uuid.uuid4()) and the state after it was drawn
WithUuid(d) == [d EXCEPT !.nextUuid = @ + 1]

db_create_project(d, project_data, remoteFails, writeFails) ==
  Bind(Merge([id |-> d.nextUuid], project_data), LAMBDA new_project :
    IF d.supabase
      THEN supabase_create_project(WithUuid(d), new_project, remoteFails)
      ELSE Bind(_write_json_robust(WithUuid(d), PROJECTS_FILE,
                                   Append(_read_json(d, PROJECTS_FILE), new_project),
                                   writeFails), LAMBDA w :
             Outcome(w.d, IF w.raised THEN None ELSE new_project, w.raised)))

db_update_project(d, project_id, updates, remoteFails, writeFails) ==
  IF d.supabase
    THEN supabase_update_project(d, project_id, updates, remoteFails)
    ELSE Bind(_read_json(d, PROJECTS_FILE), LAMBDA projects :
           IF RowsWithId(projects, project_id) = <<>> THEN Outcome(d, None, FALSE)
           ELSE Bind(WithUpdates(projects, project_id, updates), LAMBDA rows :
                Bind(_write_json_robust(d, PROJECTS_FILE, rows, writeFails), LAMBDA w :
                  Outcome(w.d, IF w.raised THEN None ELSE RowsWithId(rows, project_id)[1],
                          w.raised))))

db_delete_project(d, project_id, remoteFails, writeFails) ==
  IF d.supabase
    THEN supabase_delete_project(d, project_id, remoteFails)
    ELSE Bind(_write_json_robust(d, PROJECTS_FILE,
                                 WithoutId(_read_json(d, PROJECTS_FILE), project_id),
                                 writeFails), LAMBDA w :
           Outcome(w.d, ~w.raised, w.raised))

\* the defaults create_task and batch_create_tasks put under the caller's keys
NewTask(id, task_data) ==
  Merge([id |-> id, status |-> "Upcoming", attachments |-> PyList(<<>>)], task_data)

db_create_task(d, task_data, remoteFails, writeFails) ==
  Bind(NewTask(d.nextUuid, task_data), LAMBDA new_task :
    IF d.supabase
      THEN supabase_create_task(WithUuid(d), new_task, remoteFails)
      ELSE Bind(_write_json_robust(WithUuid(d), TASKS_FILE,
                                   Append(_read_json(d, TASKS_FILE), new_task),
                                   writeFails), LAMBDA w :
             Outcome(w.d, IF w.raised THEN None ELSE new_task, w.raised)))

batch_create_tasks(d, tasks_data, remoteFails, writeFails) ==
  Bind([i \in 1..Len(tasks_data) |-> NewTask(d.nextUuid + i - 1, tasks_data[i])],
       LAMBDA new_tasks :
  Bind([d EXCEPT !.nextUuid = @ + Len(tasks_data)], LAMBDA d1 :
    IF d.supabase
      THEN supabase_batch_create_tasks(d1, new_tasks, remoteFails)
      ELSE Bind(_write_json_robust(d1, TASKS_FILE, _read_json(d, TASKS_FILE) \o new_tasks,
                                   writeFails), LAMBDA w :
             Outcome(w.d, IF w.raised THEN None ELSE new_tasks, w.raised))))

db_update_task(d, task_id, updates, remoteFails, writeFails) ==
  IF d.supabase
    THEN supabase_update_task(d, task_id, updates, remoteFails)
    ELSE Bind(_read_json(d, TASKS_FILE), LAMBDA tasks :
           IF RowsWithId(tasks, task_id) = <<>> THEN Outcome(d, None, FALSE)
           ELSE Bind(WithUpdates(tasks, task_id, updates), LAMBDA rows :
                Bind(_write_json_robust(d, TASKS_FILE, rows, writeFails), LAMBDA w :
                  Outcome(w.d, IF w.raised THEN None ELSE RowsWithId(rows, task_id)[1],
                          w.raised))))

db_delete_task(d, task_id, remoteFails, writeFails) ==
  IF d.supabase
    THEN supabase_delete_task(d, task_id, remoteFails)
    ELSE Bind(_write_json_robust(d, TASKS_FILE,
                                 WithoutId(_read_json(d, TASKS_FILE), task_id),
                                 writeFails), LAMBDA w :
           Outcome(w.d, ~w.raised, w.raised))

(* The helper functions of database.py for the other tables.  With         *)
(* Supabase enabled they hand over to SupabaseService, whose tables for    *)
(* them are kept in d.remote.                                              *)

\* the four record kinds and their files
HelperFile(kind) ==
  CASE kind = "schedule" -> SCHEDULES_FILE
    [] kind = "comment" -> COMMENTS_FILE
    [] kind = "csms_pb" -> CSMS_PB_FILE
    [] kind = "related_doc" -> RELATED_DOCS_FILE

\* json.load(open(FILE)) if os.path.exists(FILE) else []
load_if_exists(d, filepath) ==
  IF d.local[filepath].exists THEN json_load(d.local[filepath].text) ELSE <<>>

\* SupabaseService.get_schedules, get_comments, get_csms_pb_records,
\* get_related_docs: a failed select returns []
supabase_get(d, kind, remoteFails) ==
  IF ~d.supabase \/ remoteFails THEN Outcome(d, <<>>, FALSE)
  ELSE Outcome(d, [i \in 1..Len(d.remote[kind]) |-> load_attachments(d.remote[kind][i])],
               FALSE)

\* SupabaseService.save_schedule, save_comment, save_csms_pb,
\* save_related_doc: a failed insert returns the data
supabase_save(d, kind, data, remoteFails) ==
  IF ~d.supabase THEN Outcome(d, data, FALSE)
  ELSE Bind(IF kind = "csms_pb" THEN dump_attachments(data) ELSE data, LAMBDA row :
         IF remoteFails THEN Outcome(d, row, FALSE)
         ELSE Outcome([d EXCEPT !.remote[kind] = Append(@, row)], row, FALSE))

get_schedules(d, remoteFails) ==
  IF d.supabase THEN supabase_get(d, "schedule", remoteFails)
  ELSE Outcome(d, load_if_exists(d, SCHEDULES_FILE), FALSE)

get_comments(d, remoteFails) ==
  IF d.supabase THEN supabase_get(d, "comment", remoteFails)
  ELSE Outcome(d, load_if_exists(d, COMMENTS_FILE), FALSE)

get_csms_pb_records(d, remoteFails) ==
  IF d.supabase THEN supabase_get(d, "csms_pb", remoteFails)
  ELSE Outcome(d, load_if_exists(d, CSMS_PB_FILE), FALSE)

get_related_docs(d, remoteFails) ==
  IF d.supabase THEN supabase_get(d, "related_doc", remoteFails)
  ELSE Outcome(d, load_if_exists(d, RELATED_DOCS_FILE), FALSE)

\* the getter of a record kind
getter(d, kind, remoteFails) ==
  CASE kind = "schedule" -> get_schedules(d, remoteFails)
    [] kind = "comment" -> get_comments(d, remoteFails)
    [] kind = "csms_pb" -> get_csms_pb_records(d, remoteFails)
    [] kind = "related_doc" -> get_related_docs(d, remoteFails)

\* an append to the list the function read before (lines 254-256, 341-343)
save_after_get(d, filepath, record, writeFails) ==
  _write_json_robust(d, filepath, Append(load_if_exists(d, filepath), record), writeFails)

\* an append to a name that is bound neither in the function nor in the
\* module (lines 277, 309): NameError, nothing is written
save_unbound_list(d) == Outcome(d, None, TRUE)

save_schedule(d, schedule, remoteFails, writeFails) ==
  IF d.supabase THEN supabase_save(d, "schedule", schedule, remoteFails)
  ELSE save_after_get(d, SCHEDULES_FILE, schedule, writeFails)

save_comment(d, comment, remoteFails, writeFails) ==
  IF d.supabase THEN supabase_save(d, "comment", comment, remoteFails)
  ELSE save_unbound_list(d)

save_csms_pb(d, pb, remoteFails, writeFails) ==
  IF d.supabase THEN supabase_save(d, "csms_pb", pb, remoteFails)
  ELSE save_unbound_list(d)

save_related_doc(d, doc, remoteFails, writeFails) ==
  IF d.supabase THEN supabase_save(d, "related_doc", doc, remoteFails)
  ELSE save_after_get(d, RELATED_DOCS_FILE, doc, writeFails)

\* the save function of a record kind
saver(d, kind, record, remoteFails, writeFails) ==
  CASE kind = "schedule" -> save_schedule(d, record, remoteFails, writeFails)
    [] kind = "comment" -> save_comment(d, record, remoteFails, writeFails)
    [] kind = "csms_pb" -> save_csms_pb(d, record, remoteFails, writeFails)
    [] kind = "related_doc" -> save_related_doc(d, record, remoteFails, writeFails)

-----------------------------------------------------------------------------
(* Calls of the database layer, one at a time (SpecDb)                     *)

\* uuids one behaviour of SpecDb may draw plus records it may save
MaxRows == 2

FirstUuid == 1

RecordKinds == {"schedule", "comment", "csms_pb", "related_doc"}

EmptyDatabase(supabase) ==
  [supabase |-> supabase, projects |-> <<>>, tasks |-> <<>>,
   remote |-> [k \in RecordKinds |-> <<>>],
   local |-> [f \in LocalFiles |-> NoFile],
   nextUuid |-> FirstUuid]

\* what the last call looked like to its caller: stored is TRUE when the
\* tables or files are not what they were before the call
DbCall(op, d, r, remoteFails, writeFails, before, after, record) ==
  [op |-> op, supabase |-> d.supabase, remoteFails |-> remoteFails,
   writeFails |-> writeFails, raised |-> r.raised,
   stored |-> [r.d EXCEPT !.nextUuid = 0] # [d EXCEPT !.nextUuid = 0],
   before |-> before, after |-> after, record |-> record]

InitDb ==
  /\ files = {}
  /\ folders_cache = <<>>
  /\ nextId = 1
  /\ enabled = TRUE
  /\ hist = <<>>
  /\ nested = <<>>
  /\ procs = <<>>
  /\ clone = <<>>
  /\ toc = <<>>
  /\ scan = <<>>
  /\ req = <<>>
  /\ \E supabase \in BOOLEAN : db = [d |-> EmptyDatabase(supabase), last |-> <<>>]
  /\ rate = <<>>

RECURSIVE SumLen(_, _)
\* the number of rows in the lists f maps the elements of S to
SumLen(f, S) ==
  IF S = {} THEN 0
  ELSE LET k == CHOOSE x \in S : TRUE IN Len(f[k]) + SumLen(f, S \ {k})

\* uuids drawn and records saved so far
RowsUsed(d) ==
  (d.nextUuid - FirstUuid) + SumLen(d.remote, RecordKinds)
    + SumLen([f \in LocalFiles |-> d.local[f].text],
             {HelperFile(kind) : kind \in RecordKinds})

\* the call returned r: the state and the observation
DbDone(op, r, remoteFails, writeFails, before, after, record) ==
  /\ remoteFails => db.d.supabase
  /\ writeFails => ~db.d.supabase
  /\ RowsUsed(r.d) <= MaxRows
  /\ db' = [d |-> r.d,
            last |-> DbCall(op, db.d, r, remoteFails, writeFails, before, after, record)]
  /\ UNCHANGED <<files, folders_cache, nextId, enabled, hist, nested, procs, clone,
                 toc, scan, req, rate>>

DbCreateProject(name, remoteFails, writeFails) ==
  \E r \in {db_create_project(db.d, [name |-> name], remoteFails, writeFails)} :
    DbDone("create_project", r, remoteFails, writeFails, <<>>, <<>>, <<>>)

DbUpdateProject(id, name, remoteFails, writeFails) ==
  \E r \in {db_update_project(db.d, id, [name |-> name], remoteFails, writeFails)} :
    DbDone("update_project", r, remoteFails, writeFails, <<>>, <<>>, <<>>)

DbDeleteProject(id, remoteFails, writeFails) ==
  \E r \in {db_delete_project(db.d, id, remoteFails, writeFails)} :
    DbDone("delete_project", r, remoteFails, writeFails, <<>>, <<>>, <<>>)

DbCreateTask(code, remoteFails, writeFails) ==
  \E r \in {db_create_task(db.d, [project_id |-> FirstUuid, code |-> code],
                           remoteFails, writeFails)} :
    DbDone("create_task", r, remoteFails, writeFails, <<>>, <<>>, <<>>)

DbBatchCreateTasks(codes, remoteFails, writeFails) ==
  \E r \in {batch_create_tasks(db.d,
              [i \in 1..Len(codes) |-> [project_id |-> FirstUuid, code |-> codes[i]]],
              remoteFails, writeFails)} :
    DbDone("batch_create_tasks", r, remoteFails, writeFails, <<>>, <<>>, <<>>)

DbUpdateTask(id, remoteFails, writeFails) ==
  \E r \in {db_update_task(db.d, id, [attachments |-> PyList(<<FileName>>)],
                           remoteFails, writeFails)} :
    DbDone("update_task", r, remoteFails, writeFails, <<>>, <<>>, <<>>)

DbDeleteTask(id, remoteFails, writeFails) ==
  \E r \in {db_delete_task(db.d, id, remoteFails, writeFails)} :
    DbDone("delete_task", r, remoteFails, writeFails, <<>>, <<>>, <<>>)

\* a save of one record followed by the matching getter
DbSave(kind, record, remoteFails, writeFails) ==
  \E r \in {saver(db.d, kind, record, remoteFails, writeFails)} :
    /\ RowsUsed(db.d) < MaxRows
    /\ DbDone("save", r, remoteFails, writeFails,
              getter(db.d, kind, FALSE).ret, getter(r.d, kind, FALSE).ret,
              [kind |-> kind, record |-> record])

\* the records a caller may save
SaveRecords ==
  { [id |-> 1, text |-> <<"A">>],
    [id |-> 2, text |-> <<"B">>, attachments |-> PyList(<<FileName>>)] }

Codes == {<<"1", ".", "1">>, <<"1", ".", "2">>}

NextDb ==
  \E remoteFails \in BOOLEAN, writeFails \in BOOLEAN :
    \/ \E name \in {ProjectName, <<"Q">>} : DbCreateProject(name, remoteFails, writeFails)
    \/ \E id \in FirstUuid..(FirstUuid + MaxRows) :
         \/ DbUpdateProject(id, <<"Q">>, remoteFails, writeFails)
         \/ DbDeleteProject(id, remoteFails, writeFails)
         \/ DbUpdateTask(id, remoteFails, writeFails)
         \/ DbDeleteTask(id, remoteFails, writeFails)
    \/ \E code \in Codes : DbCreateTask(code, remoteFails, writeFails)
    \/ \E codes \in {<<>>} \cup {<<c>> : c \in Codes} \cup {<<c1, c2>> : c1 \in Codes, c2 \in Codes} :
         DbBatchCreateTasks(codes, remoteFails, writeFails)
    \/ \E kind \in RecordKinds, record \in SaveRecords :
         DbSave(kind, record, remoteFails, writeFails)

SpecDb == InitDb /\ [][NextDb]_vars

-----------------------------------------------------------------------------
(* Properties of SpecDb *)

WriteOps ==
  {"create_project", "create_task", "batch_create_tasks", "update_project",
   "update_task", "delete_project", "delete_task"}

\* C21: with Supabase enabled, a write whose remote call failed raised an
\* error to its caller.
C21_WritesFailLoudly ==
  (db.last # <<>> /\ db.last.op \in WriteOps /\ db.last.supabase /\ db.last.remoteFails)
    => db.last.raised

\* C30: with Supabase disabled and the file writable, a save of a record
\* completed without error, and the matching getter then returned the
\* records it returned before the save followed by the record.
C30_SaveReadRoundTrip ==
  (db.last # <<>> /\ db.last.op = "save" /\ ~db.last.supabase /\ ~db.last.writeFails)
    => /\ ~db.last.raised
       /\ db.last.after = Append(db.last.before, db.last.record.record)

-----------------------------------------------------------------------------
(* Prefix-search calls on a parent that holds several matching children    *)
(* (SpecSelect)                                                            *)

\* folders one behaviour of SpecSelect may create
MaxSel == 1

\* children the project folder may hold: "2.1 H", "2.1 B", "2.1", and a
\* second "2.1 H" and a second "2.1" (Drive does not keep names unique, and
\* two racing creators leave such a pair behind)
SelectChildren ==
  { File(4, <<"2", ".", "1", " ", "H">>, ProjectP.id, FOLDER),
    File(5, <<"2", ".", "1", " ", "B">>, ProjectP.id, FOLDER),
    File(6, <<"2", ".", "1">>, ProjectP.id, FOLDER),
    File(7, <<"2", ".", "1", " ", "H">>, ProjectP.id, FOLDER),
    File(8, <<"2", ".", "1">>, ProjectP.id, FOLDER) }

FirstSelId == ProjectP.id + Cardinality(SelectChildren) + 1

InitSelect ==
  /\ \E pre \in SUBSET SelectChildren : files = {ProjectP} \cup pre
  /\ folders_cache = <<>>
  /\ nextId = FirstSelId
  /\ enabled = TRUE
  /\ hist = <<>>
  /\ nested = <<>>
  /\ procs = <<>>
  /\ clone = <<>>
  /\ toc = <<>>
  /\ scan = <<>>
  /\ req = <<>>
  /\ db = <<>>
  /\ rate = <<>>

\* one call find_or_create_folder(folder_name, project, prefix_search=True);
\* other is what the same call returns when the listing comes back in the
\* opposite order
SelectFolder(folder_name, fails, desc) ==
  \E s \in {State(files, folders_cache, nextId, enabled)} :
  \E r \in {find_or_create_folder(s, folder_name, ProjectP.id, TRUE, fails, desc)} :
  \E o \in {find_or_create_folder(s, folder_name, ProjectP.id, TRUE, fails, ~desc)} :
      /\ r.nextId <= FirstSelId + MaxSel
      /\ files' = r.files
      /\ folders_cache' = r.cache
      /\ nextId' = r.nextId
      /\ hist' = [name |-> folder_name, ret |-> r.ret, other |-> o.ret,
                  raised |-> r.calls \in fails,
                  matches |-> {f \in files : Query(f, folder_name, ProjectP.id, TRUE)}]
      /\ UNCHANGED <<enabled, nested, procs, clone, toc, scan, req, db, rate>>

NextSelect ==
  \E folder_name \in {<<"2", ".", "1">>, <<"2", ".", "1", " ", "H">>},
     fails \in FailSets(2), desc \in BOOLEAN :
    SelectFolder(folder_name, fails, desc)

SpecSelect == InitSelect /\ [][NextSelect]_vars

\* C22: a prefix search that found more than one matching child returned a
\* child named exactly as asked if there is one, otherwise a matching child
\* with the lexicographically first name, and the same child whatever the
\* order of the listing.
C22_PrefixSelection ==
  (hist # <<>> /\ ~hist.raised /\ Cardinality(hist.matches) > 1) =>
    /\ \E chosen \in hist.matches :
         /\ chosen.id = hist.ret
         /\ (\E m \in hist.matches : m.name = hist.name) => chosen.name = hist.name
         /\ (\A m \in hist.matches : m.name # hist.name) =>
              \A m \in hist.matches : ~StrLess(m.name, chosen.name)
    /\ hist.ret = hist.other

-----------------------------------------------------------------------------
(* logger_service: the rate limit of the error emails                      *)

ERROR_EMAIL_RATE_LIMIT == 5
ERROR_EMAIL_RATE_WINDOW == 300

\* the error locations of the calls
Locations == {"MAIN - a", "DRIVE - b"}

\* _error_email_timestamps = defaultdict(list)
NoTimestamps == [l \in Locations |-> <<>>]

\* [ts for ts in timestamps if current_time - ts < ERROR_EMAIL_RATE_WINDOW]
recent(timestamps, current_time) ==
  LET Keep(ts) == current_time - ts < ERROR_EMAIL_RATE_WINDOW
  IN  SelectSeq(timestamps, Keep)

\* the refused call leaves its time in the list too
_check_rate_limit_recording(stamps, error_location, current_time) ==
  LET kept == recent(stamps[error_location], current_time)
  IN  [stamps |-> [stamps EXCEPT ![error_location] = Append(kept, current_time)],
       ret    |-> Len(kept) < ERROR_EMAIL_RATE_LIMIT]

\* _check_rate_limit(error_location), with the clock value it reads
_check_rate_limit(stamps, error_location, current_time) ==
  LET kept == recent(stamps[error_location], current_time)
  IN  IF Len(kept) >= ERROR_EMAIL_RATE_LIMIT
        THEN [stamps |-> [stamps EXCEPT ![error_location] = kept], ret |-> FALSE]
        ELSE [stamps |-> [stamps EXCEPT ![error_location] = Append(kept, current_time)],
              ret    |-> TRUE]

\* the clock runs for this many windows of 300 seconds
MaxWindows == 1

\* the clock between two calls stands still, or moves by just less than
\* the window, or by the window
ClockSteps == {0, ERROR_EMAIL_RATE_WINDOW - 1, ERROR_EMAIL_RATE_WINDOW}

InitRate ==
  /\ files = {}
  /\ folders_cache = <<>>
  /\ nextId = 1
  /\ enabled = TRUE
  /\ hist = <<>>
  /\ nested = <<>>
  /\ procs = <<>>
  /\ clone = <<>>
  /\ toc = <<>>
  /\ scan = <<>>
  /\ req = <<>>
  /\ db = <<>>
  /\ rate = [now |-> 0, stamps |-> NoTimestamps, granted |-> NoTimestamps,
             last |-> <<>>]

\* log_error(..., send_email=True) up to its call of _check_rate_limit
CheckRateLimit(error_location, step) ==
  /\ rate.now + step <= MaxWindows * ERROR_EMAIL_RATE_WINDOW
  /\ \E r \in {_check_rate_limit(rate.stamps, error_location, rate.now + step)} :
       rate' = [now     |-> rate.now + step,
                stamps  |-> r.stamps,
                granted |-> IF r.ret
                              THEN [rate.granted EXCEPT ![error_location] =
                                      Append(@, rate.now + step)]
                              ELSE rate.granted,
                last    |-> [location |-> error_location, ret |-> r.ret]]
  /\ UNCHANGED <<files, folders_cache, nextId, enabled, hist, nested, procs, clone,
               toc, scan, req, db>>

NextRate ==
  \E error_location \in Locations, step \in ClockSteps :
    CheckRateLimit(error_location, step)

SpecRate == InitRate /\ [][NextRate]_vars

\* the calls for a location that returned True less than a window before t
GrantedWithin(location, t) ==
  {k \in 1..Len(rate.granted[location]) :
     /\ rate.granted[location][k] <= t
     /\ t - rate.granted[location][k] < ERROR_EMAIL_RATE_WINDOW}

\* what a call may do to the lists of timestamps
RateStep ==
  /\ ~rate'.last.ret =>
       rate'.stamps[rate'.last.location]
         = recent(rate.stamps[rate'.last.location], rate'.now)
  /\ rate'.last.ret =>
       rate'.stamps[rate'.last.location]
         = Append(recent(rate.stamps[rate'.last.location], rate'.now), rate'.now)
  /\ \A m \in Locations \ {rate'.last.location} : rate'.stamps[m] = rate.stamps[m]

\* C28: with a clock that never goes back, among the calls for one location
\* whose clock values lie less than 300 seconds apart at most 5 returned
\* True; a call returns True exactly when fewer than 5 earlier calls for its
\* own location returned True less than 300 seconds before it; a call that
\* returned False added no timestamp, and no call changes the list of
\* another location.
C28_RateLimit ==
  /\ [](/\ \A l \in Locations : \A k \in 1..Len(rate.granted[l]) :
            Cardinality(GrantedWithin(l, rate.granted[l][k])) <= ERROR_EMAIL_RATE_LIMIT
        /\ rate.last # <<>> =>
             rate.last.ret =
               (Cardinality(GrantedWithin(rate.last.location, rate.now))
                  - (IF rate.last.ret THEN 1 ELSE 0) < ERROR_EMAIL_RATE_LIMIT))
  /\ [][RateStep]_vars

\* a refused call for one location, after an earlier timestamp of that
\* location has left the window and while the other location has one
C28_Witness ==
  /\ rate.last # <<>>
  /\ ~rate.last.ret
  /\ Len(rate.granted[rate.last.location]) > ERROR_EMAIL_RATE_LIMIT
  /\ \E m \in Locations \ {rate.last.location} : rate.stamps[m] # <<>>

-----------------------------------------------------------------------------
(* main.py: POST /projects/{project_id}/sync-full-checklist (SpecSync)     *)

\* calls of sync_full_checklist in one behaviour
MaxSyncs == 2

\* the master templates of SpecSync: a chain of coded folders; "Element 0"
\* with uncoded folders; "Element 0" with "Hm" and "0.1 A"; "Element 0"
\* with "Hm" and a second "Element 0" with "Hm" inside "1.1 A"
SyncTemplates ==
  { {ScanChain[i] : i \in 1..3},
    {ScanElement0} \cup ScanUncoded \cup {ScanChain[1]},
    {ScanElement0, File(5, <<"H", "m">>, ScanElement0.id, FOLDER), ScanCoded},
    {ScanElement0, File(5, <<"H", "m">>, ScanElement0.id, FOLDER)}
      \cup {ScanChain[i] : i \in 1..2} \cup ScanDeepElement0 }

\* a database with one project and, when withTask, one task of it
DatabaseWithProject(supabase, withTask, code) ==
  Bind(db_create_project(EmptyDatabase(supabase), [name |-> ProjectName], FALSE, FALSE).d,
       LAMBDA d :
    IF ~withTask THEN d
    ELSE db_create_task(d, [project_id |-> FirstUuid, code |-> code], FALSE, FALSE).d)

InitSync ==
  /\ files \in SyncTemplates
  /\ folders_cache = <<>>
  /\ nextId = FirstScanId
  /\ enabled = TRUE
  /\ hist = <<>>
  /\ nested = <<>>
  /\ procs = <<>>
  /\ clone = <<>>
  /\ toc = <<>>
  /\ scan = <<>>
  /\ req = <<>>
  /\ \E supabase \in BOOLEAN, withTask \in BOOLEAN :
       db = [d |-> DatabaseWithProject(supabase, withTask, <<"1", ".", "1">>),
             last |-> <<>>, syncs |-> 0]
  /\ rate = <<>>

\* the tasks of a project as the tables or the file hold them
StoredTasks(d, project_id) ==
  SelectSeq(IF d.supabase THEN d.tasks ELSE _read_json(d, TASKS_FILE),
            LAMBDA t : t.project_id = project_id)

\* existing_codes = {t['code'] for t in existing_tasks if t.get('code')}
existing_codes(existing_tasks) ==
  {existing_tasks[i].code : i \in {k \in 1..Len(existing_tasks) :
                                      /\ "code" \in DOMAIN existing_tasks[k]
                                      /\ existing_tasks[k].code # <<>>}}

\* tasks_to_add: the template tasks whose code is not in existing_codes
tasks_to_add(template_tasks, codes, project_id) ==
  Bind(SelectSeq(template_tasks, LAMBDA t : t.code \notin codes), LAMBDA new :
    [i \in 1..Len(new) |->
       [title |-> new[i].title, project_id |-> project_id, code |-> new[i].code,
        category |-> new[i].category, status |-> "Upcoming"]])

\* `not project` for project = db.get_project(project_id): no row has the
\* id, or the remote select failed and get_project returned None
project_missing(d, project_id, remoteFails) ==
  IF d.supabase
    THEN remoteFails \/ RowsWithId(d.projects, project_id) = <<>>
    ELSE RowsWithId(_read_json(d, PROJECTS_FILE), project_id) = <<>>

\* the handler; returns [d, status, added, template]
sync_full_checklist(d, s, project_id, fails, desc, projectFails, tasksFail, batchFails, writeFails) ==
  Bind(project_missing(d, project_id, projectFails), LAMBDA missing :
    IF missing
      THEN [d |-> d, status |-> 404, added |-> 0, template |-> <<>>]
    ELSE
  Bind(get_template_structure(s, fails, desc).tasks, LAMBDA template_tasks :
    IF template_tasks = <<>>
      THEN [d |-> d, status |-> 404, added |-> 0, template |-> <<>>]
    ELSE
  Bind(get_tasks(d, project_id, tasksFail).ret, LAMBDA existing_tasks :
  Bind(tasks_to_add(template_tasks, existing_codes(existing_tasks), project_id),
       LAMBDA to_add :
    IF to_add = <<>>
      THEN [d |-> d, status |-> 200, added |-> 0, template |-> template_tasks]
    ELSE
  Bind(batch_create_tasks(d, to_add, batchFails, writeFails), LAMBDA b :
    IF b.raised
      THEN [d |-> b.d, status |-> 500, added |-> 0, template |-> template_tasks]
      ELSE [d |-> b.d, status |-> 200, added |-> Len(to_add),
            template |-> template_tasks])))))

\* one request; the background task added at line 469 runs after a response
\* that the handler returned, not after an HTTPException
SyncFullChecklist(fails, desc, projectFails, tasksFail, batchFails, writeFails) ==
  /\ db.syncs < MaxSyncs
  /\ (projectFails \/ tasksFail \/ batchFails) => db.d.supabase
  /\ writeFails => ~db.d.supabase
  /\ \E s \in {State(files, folders_cache, nextId, enabled)} :
     \E r \in {sync_full_checklist(db.d, s, FirstUuid, fails, desc,
                                   projectFails, tasksFail, batchFails, writeFails)} :
     \E bg \in {IF r.status = 200
                  THEN project_setup_task(s, ProjectName, {}, {}, desc).s
                  ELSE s} :
       /\ db' = [d |-> r.d,
                 last |-> [status |-> r.status, added |-> r.added,
                           template |-> r.template, tasksFail |-> tasksFail,
                           before |-> StoredTasks(db.d, FirstUuid)],
                 syncs |-> db.syncs + 1]
       /\ files' = bg.files
       /\ folders_cache' = bg.cache
       /\ nextId' = bg.nextId
  /\ UNCHANGED <<enabled, hist, nested, procs, clone, toc, scan, req, rate>>

NextSync ==
  \E desc \in BOOLEAN, fails \in FailSets(ScanCalls),
     projectFails \in BOOLEAN, tasksFail \in BOOLEAN, batchFails \in BOOLEAN,
     writeFails \in BOOLEAN :
    SyncFullChecklist(fails, desc, projectFails, tasksFail, batchFails, writeFails)

SpecSync == InitSync /\ [][NextSync]_vars

\* the codes of a list of tasks are pairwise distinct
DistinctCodes(tasks) ==
  \A i, j \in 1..Len(tasks) : tasks[i].code = tasks[j].code => i = j

\* C29: after a call of sync_full_checklist for a project whose tasks had
\* pairwise distinct codes before it, no two tasks of the project share a
\* code.
C29_NoDuplicateCodes ==
  (db.last # <<>> /\ DistinctCodes(db.last.before)) =>
    DistinctCodes(StoredTasks(db.d, FirstUuid))

====
